---- MODULE Spec2Model ----
(***************************************************************************)
(* OpenPrint3D profile tools: the PrusaSlicer importer                      *)
(* (tools/import_prusaslicer.py), the slicer exporters                     *)
(* (tools/convert_profile.py) and the path setter they rest on.            *)
(*                                                                         *)
(* Representation of Python values.  Every value is a record [t, v]:       *)
(*   t = "dict"  : v is a function from keys (strings) to values           *)
(*   t = "list"  : v is a sequence of values                               *)
(*   t = "str"   : v is the sequence of the string's characters            *)
(*   t = "int"   : v is the integer                                        *)
(*   t = "float" : v is the number times 10^4 (decimal fixed point; the    *)
(*                 inputs carry at most four fractional digits)            *)
(*   t = "bool"  : v is TRUE or FALSE                                      *)
(* A call that may raise returns [exc, val]: exc = "none" and the value,   *)
(* or the exception's class name and whatever the call had mutated.        *)
(***************************************************************************)
EXTENDS Integers, Sequences, FiniteSets, TLC

VARIABLES
    pc,          \* position of the run: which call has returned
    kind,        \* profile kind of the run: "printer", "filament", "process"
    section,     \* the source section: option name -> raw string
    profile,     \* the canonical profile (import result or export input)
    exc,         \* exception raised by the last call, or "none"
    dialect,     \* the export target
    exported,    \* the exported dialect document
    reimported,  \* the profile of the re-import of the exported document
    d,           \* set_nested: the container before the call
    path,        \* set_nested: the path, split at "."
    value,       \* set_nested: the value written
    after,       \* set_nested: the container after the call
    profile1,    \* compare: the first profile
    profile2,    \* compare: the second profile
    key_order,   \* compare: the order in which the profiles' mappings list their keys
    show_common, \* compare: --show-common
    result,      \* compare: what compare_profiles returned
    args,        \* batch: the command line
    fs0,         \* batch: the files before the run
    fs,          \* batch: the files now
    todo,        \* batch: the items the loop has still to visit
    emitted,     \* batch: what the run has written or printed, item by item
    diagnostics, \* batch: the items a diagnostic was printed for
    status       \* batch: "running", or how the process ended

diffVars == <<profile1, profile2, key_order, show_common, result>>
batchVars == <<args, fs0, fs, todo, emitted, diagnostics, status>>
vars == <<pc, kind, section, profile, exc, dialect, exported, reimported, d, path, value, after,
          diffVars, batchVars>>

-----------------------------------------------------------------------------
(* Values *)

Scale == 10 * 1000

DictV(f) == [t |-> "dict", v |-> f]
ListV(s) == [t |-> "list", v |-> s]
StrV(s) == [t |-> "str", v |-> s]
IntV(n) == [t |-> "int", v |-> n]
FloatV(n) == [t |-> "float", v |-> n]
BoolV(b) == [t |-> "bool", v |-> b]

\* a variable that holds nothing yet, and the result of a read that finds nothing
NoValue == [t |-> "absent", v |-> 0]

EmptyDict == DictV(<< >>)

Ok(x) == [exc |-> "none", val |-> x]
Raise(e, x) == [exc |-> e, val |-> x]

\* d[key] = x on a mapping
Put(f, key, x) == [k \in DOMAIN f \cup {key} |-> IF k = key THEN x ELSE f[k]]

\* dict.get(key, default)
dict_get(node, key, default) == IF key \in DOMAIN node.v THEN node.v[key] ELSE default

\* the numeric value of an int, float or bool, times Scale
NumVal(x) ==
    CASE x.t = "int" -> x.v * Scale
      [] x.t = "float" -> x.v
      [] x.t = "bool" -> IF x.v THEN Scale ELSE 0

IsNum(x) == x.t \in {"int", "float", "bool"}

\* Python's ==: numbers compare by value across int, float and bool
RECURSIVE PyEq(_, _)
PyEq(x, y) ==
    IF IsNum(x) /\ IsNum(y) THEN NumVal(x) = NumVal(y)
    ELSE IF x.t # y.t THEN FALSE
    ELSE IF x.t = "dict" THEN
        /\ DOMAIN x.v = DOMAIN y.v
        /\ \A k \in DOMAIN x.v : PyEq(x.v[k], y.v[k])
    ELSE IF x.t = "list" THEN
        /\ Len(x.v) = Len(y.v)
        /\ \A i \in 1..Len(x.v) : PyEq(x.v[i], y.v[i])
    ELSE x.v = y.v

\* max(a, b) and min(a, b): the first argument wins a tie and keeps its type
py_max(a, b) == IF NumVal(b) > NumVal(a) THEN b ELSE a
py_min(a, b) == IF NumVal(b) < NumVal(a) THEN b ELSE a

-----------------------------------------------------------------------------
(* Strings *)

DigitChars == <<"0", "1", "2", "3", "4", "5", "6", "7", "8", "9">>
UpperChars == <<"A", "B", "C", "D", "E", "F", "G", "H", "I", "J", "K", "L", "M",
                "N", "O", "P", "Q", "R", "S", "T", "U", "V", "W", "X", "Y", "Z">>
LowerChars == <<"a", "b", "c", "d", "e", "f", "g", "h", "i", "j", "k", "l", "m",
                "n", "o", "p", "q", "r", "s", "t", "u", "v", "w", "x", "y", "z">>

IsDigit(c) == \E i \in 1..10 : DigitChars[i] = c
DigitVal(c) == (CHOOSE i \in 1..10 : DigitChars[i] = c) - 1

\* str.isdigit(): non-empty and digits only
str_isdigit(s) == s # << >> /\ \A i \in 1..Len(s) : IsDigit(s[i])

RECURSIVE DigitsValue(_)
DigitsValue(s) ==
    IF s = << >> THEN 0
    ELSE DigitsValue(SubSeq(s, 1, Len(s) - 1)) * 10 + DigitVal(s[Len(s)])

RECURSIVE NatToStr(_)
NatToStr(n) ==
    IF n < 10 THEN <<DigitChars[n + 1]>>
    ELSE NatToStr(n \div 10) \o <<DigitChars[(n % 10) + 1]>>

\* str.strip() of blanks
RECURSIVE str_strip(_)
str_strip(s) ==
    IF s = << >> THEN s
    ELSE IF s[1] = " " THEN str_strip(Tail(s))
    ELSE IF s[Len(s)] = " " THEN str_strip(SubSeq(s, 1, Len(s) - 1))
    ELSE s

str_lower(s) ==
    [i \in 1..Len(s) |->
        IF \E j \in 1..26 : UpperChars[j] = s[i]
        THEN LowerChars[CHOOSE j \in 1..26 : UpperChars[j] = s[i]]
        ELSE s[i]]

str_upper(s) ==
    [i \in 1..Len(s) |->
        IF \E j \in 1..26 : LowerChars[j] = s[i]
        THEN UpperChars[CHOOSE j \in 1..26 : LowerChars[j] = s[i]]
        ELSE s[i]]

\* str.replace(old, new) for a one-character old and new of at most one character
RECURSIVE str_replace(_, _, _)
str_replace(s, old, new) ==
    IF s = << >> THEN s
    ELSE (IF s[1] = old THEN new ELSE <<s[1]>>) \o str_replace(Tail(s), old, new)

\* sub in s, for strings
str_contains(s, sub) ==
    \E i \in 1..(Len(s) - Len(sub) + 1) : SubSeq(s, i, i + Len(sub) - 1) = sub

\* the body of a decimal literal after the sign, as float() and int() read it
UnsignedBody(s) == IF s # << >> /\ s[1] \in {"-", "+"} THEN Tail(s) ELSE s
Sign(s) == IF s # << >> /\ s[1] = "-" THEN -1 ELSE 1

\* the first four fractional digits, right-padded with zeros, as a number
FracValue(fp) ==
    LET padded == SubSeq(fp \o <<"0", "0", "0", "0">>, 1, 4)
    IN  DigitsValue(padded)

\* float(s) of a string: ValueError unless s is [sign] digits [. digits]
py_float(s) ==
    LET body == UnsignedBody(str_strip(s))
        dots == {i \in 1..Len(body) : body[i] = "."}
    IN  IF Cardinality(dots) = 0 THEN
            IF str_isdigit(body)
            THEN Ok(FloatV(Sign(str_strip(s)) * DigitsValue(body) * Scale))
            ELSE Raise("ValueError", NoValue)
        ELSE IF Cardinality(dots) = 1 THEN
            LET p == CHOOSE i \in dots : TRUE
                ip == SubSeq(body, 1, p - 1)
                fp == SubSeq(body, p + 1, Len(body))
            IN  IF /\ \A i \in 1..Len(ip) : IsDigit(ip[i])
                   /\ \A i \in 1..Len(fp) : IsDigit(fp[i])
                   /\ Len(ip) + Len(fp) >= 1
                THEN Ok(FloatV(Sign(str_strip(s)) * (DigitsValue(ip) * Scale + FracValue(fp))))
                ELSE Raise("ValueError", NoValue)
        ELSE Raise("ValueError", NoValue)

\* int(s) of a string: ValueError unless s is [sign] digits
py_int(s) ==
    LET body == UnsignedBody(str_strip(s))
    IN  IF str_isdigit(body)
        THEN Ok(IntV(Sign(str_strip(s)) * DigitsValue(body)))
        ELSE Raise("ValueError", NoValue)

\* the fractional digits of repr(float): trailing zeros dropped, one digit kept
RECURSIVE FracDigits(_, _)
FracDigits(n, width) ==
    IF width = 0 \/ (n = 0 /\ width < 4) THEN << >>
    ELSE <<DigitChars[(n \div (10 ^ (width - 1))) + 1]>> \o FracDigits(n % (10 ^ (width - 1)), width - 1)

\* str(x) of a float
float_str(n) ==
    LET a == IF n < 0 THEN -n ELSE n
    IN  (IF n < 0 THEN <<"-">> ELSE << >>) \o NatToStr(a \div Scale) \o <<".">> \o FracDigits(a % Scale, 4)

int_str(n) == IF n < 0 THEN <<"-">> \o NatToStr(-n) ELSE NatToStr(n)

RECURSIVE JoinStrs(_, _)
JoinStrs(seq, sep) ==
    IF seq = << >> THEN << >>
    ELSE IF Len(seq) = 1 THEN seq[1]
    ELSE seq[1] \o sep \o JoinStrs(Tail(seq), sep)

\* str(x), as an f-string and ConfigParser.read_dict apply it
RECURSIVE py_str(_)
py_str(x) ==
    CASE x.t = "str" -> x.v
      [] x.t = "int" -> int_str(x.v)
      [] x.t = "float" -> float_str(x.v)
      [] x.t = "bool" -> IF x.v THEN <<"T", "r", "u", "e">> ELSE <<"F", "a", "l", "s", "e">>
      [] x.t = "list" ->
            <<"[">> \o JoinStrs([i \in 1..Len(x.v) |->
                                    IF x.v[i].t = "str"
                                    THEN <<"'">> \o x.v[i].v \o <<"'">>
                                    ELSE py_str(x.v[i])], <<",", " ">>) \o <<"]">>
      [] OTHER -> <<"{", "}">>    \* only the empty mapping's text is modelled

-----------------------------------------------------------------------------
(* Path addressing *)

\* the key a mapping gets when it is indexed with the integer i
IntKeys == <<"#0", "#1", "#2", "#3", "#4", "#5", "#6", "#7", "#8", "#9">>

\* set_nested(d, path, value) with keys = path.split("."); a segment of the model
\* is one TLA+ string, and the digit-only segments are the one-digit ones.
\* Returns the container after the call.  A digit-only segment met where d is no
\* list rebinds d to a fresh list that nothing refers to (line 150): every later
\* write of the call goes into that list and the container keeps its content.
RECURSIVE set_nested(_, _, _)
set_nested(node, keys, x) ==
    LET key == Head(keys)
        idx == DigitVal(key)
    IN  IF Len(keys) = 1 THEN
            IF IsDigit(key) THEN
                CASE node.t = "list" ->
                        IF idx < Len(node.v)
                        THEN Ok(ListV([node.v EXCEPT ![idx + 1] = x]))
                        ELSE Raise("IndexError", node)
                  [] node.t = "dict" -> Ok(DictV(Put(node.v, IntKeys[idx + 1], x)))
                  [] OTHER -> Raise("TypeError", node)
            ELSE
                IF node.t = "dict"
                THEN Ok(DictV(Put(node.v, key, x)))
                ELSE Raise("TypeError", node)
        ELSE IF IsDigit(key) THEN
            IF node.t # "list" THEN Ok(node)
            ELSE
                LET padded == IF Len(node.v) <= idx
                              THEN node.v \o [i \in 1..(idx + 1 - Len(node.v)) |-> EmptyDict]
                              ELSE node.v
                    r == set_nested(padded[idx + 1], Tail(keys), x)
                IN  [exc |-> r.exc, val |-> ListV([padded EXCEPT ![idx + 1] = r.val])]
        ELSE
            IF node.t = "dict" THEN
                LET f == IF key \in DOMAIN node.v THEN node.v ELSE Put(node.v, key, EmptyDict)
                    r == set_nested(f[key], Tail(keys), x)
                IN  [exc |-> r.exc, val |-> DictV(Put(f, key, r.val))]
            ELSE Raise("TypeError", node)

-----------------------------------------------------------------------------
(* Mapping tables and default profiles *)

\* PRINTER_MAPPINGS (lines 28-48): in dict order; path is the entry's dotted path split at "."
PRINTER_MAPPINGS ==
  <<
    [key |-> "printer_model", path |-> <<"model">>, conv |-> "str"],
    [key |-> "printer_make", path |-> <<"manufacturer">>, conv |-> "str"],
    [key |-> "printer_variant", path |-> <<"variant">>, conv |-> "str"],
    [key |-> "bed_shape", path |-> <<"build_volume", "shape">>, conv |-> "str"],
    [key |-> "max_print_height", path |-> <<"build_volume", "z">>, conv |-> "float"],
    [key |-> "printable_area", path |-> <<"build_volume", "dimensions">>, conv |-> "str"],
    [key |-> "nozzle_diameter", path |-> <<"extruders", "0", "nozzle_diameter">>, conv |-> "float"],
    [key |-> "min_layer_height", path |-> <<"layer_height", "min">>, conv |-> "float"],
    [key |-> "max_layer_height", path |-> <<"layer_height", "max">>, conv |-> "float"],
    [key |-> "retract_length", path |-> <<"retraction", "distance">>, conv |-> "float"],
    [key |-> "retract_speed", path |-> <<"retraction", "speed">>, conv |-> "float"],
    [key |-> "max_print_speed", path |-> <<"speed", "max">>, conv |-> "float"],
    [key |-> "machine_max_speed_x", path |-> <<"axes", "x", "max_speed">>, conv |-> "float"],
    [key |-> "machine_max_speed_y", path |-> <<"axes", "y", "max_speed">>, conv |-> "float"],
    [key |-> "machine_max_speed_z", path |-> <<"axes", "z", "max_speed">>, conv |-> "float"],
    [key |-> "machine_max_acceleration_x", path |-> <<"axes", "x", "max_accel">>, conv |-> "float"],
    [key |-> "machine_max_acceleration_y", path |-> <<"axes", "y", "max_accel">>, conv |-> "float"],
    [key |-> "machine_max_acceleration_z", path |-> <<"axes", "z", "max_accel">>, conv |-> "float"],
    [key |-> "printer_notes", path |-> <<"notes">>, conv |-> "str"]
  >>

\* FILAMENT_MAPPINGS (lines 50-70): in dict order; path is the entry's dotted path split at "."
FILAMENT_MAPPINGS ==
  <<
    [key |-> "filament_type", path |-> <<"material">>, conv |-> "str"],
    [key |-> "filament_vendor", path |-> <<"brand">>, conv |-> "str"],
    [key |-> "filament_colour", path |-> <<"color">>, conv |-> "str"],
    [key |-> "filament_diameter", path |-> <<"diameter">>, conv |-> "float"],
    [key |-> "filament_density", path |-> <<"density">>, conv |-> "float"],
    [key |-> "temperature", path |-> <<"nozzle", "recommended">>, conv |-> "float"],
    [key |-> "first_layer_temperature", path |-> <<"nozzle", "first_layer">>, conv |-> "float"],
    [key |-> "bed_temperature", path |-> <<"bed", "recommended">>, conv |-> "float"],
    [key |-> "first_layer_bed_temperature", path |-> <<"bed", "first_layer">>, conv |-> "float"],
    [key |-> "fan_min_speed", path |-> <<"fan", "min">>, conv |-> "float"],
    [key |-> "fan_max_speed", path |-> <<"fan", "max">>, conv |-> "float"],
    [key |-> "bridge_fan_speed", path |-> <<"fan", "bridge">>, conv |-> "float"],
    [key |-> "disable_fan_first_layers", path |-> <<"fan", "disable_first_layers">>, conv |-> "int"],
    [key |-> "min_print_speed", path |-> <<"printing_speed", "min">>, conv |-> "float"],
    [key |-> "max_print_speed", path |-> <<"printing_speed", "max">>, conv |-> "float"],
    [key |-> "filament_max_volumetric_speed", path |-> <<"volumetric_speed">>, conv |-> "float"],
    [key |-> "filament_notes", path |-> <<"notes">>, conv |-> "str"],
    [key |-> "filament_cost", path |-> <<"cost">>, conv |-> "float"],
    [key |-> "filament_spool_weight", path |-> <<"spool_weight">>, conv |-> "float"]
  >>

\* PROCESS_MAPPINGS (lines 72-108): in dict order; path is the entry's dotted path split at "."
PROCESS_MAPPINGS ==
  <<
    [key |-> "layer_height", path |-> <<"layer_height", "default">>, conv |-> "float"],
    [key |-> "first_layer_height", path |-> <<"layer_height", "first_layer">>, conv |-> "float"],
    [key |-> "perimeters", path |-> <<"wall_settings", "wall_count">>, conv |-> "int"],
    [key |-> "top_solid_layers", path |-> <<"wall_settings", "top_layers">>, conv |-> "int"],
    [key |-> "bottom_solid_layers", path |-> <<"wall_settings", "bottom_layers">>, conv |-> "int"],
    [key |-> "fill_density", path |-> <<"infill", "density_default">>, conv |-> "float"],
    [key |-> "fill_pattern", path |-> <<"infill", "pattern">>, conv |-> "str"],
    [key |-> "perimeter_speed", path |-> <<"speed", "outer_wall">>, conv |-> "float"],
    [key |-> "infill_speed", path |-> <<"speed", "infill">>, conv |-> "float"],
    [key |-> "internal_infills_speed", path |-> <<"speed", "infill_internal">>, conv |-> "float"],
    [key |-> "solid_infill_speed", path |-> <<"speed", "solid_infill">>, conv |-> "float"],
    [key |-> "top_solid_infill_speed", path |-> <<"speed", "top_bottom">>, conv |-> "float"],
    [key |-> "bottom_solid_infill_speed", path |-> <<"speed", "top_bottom">>, conv |-> "float"],
    [key |-> "travel_speed", path |-> <<"speed", "travel">>, conv |-> "float"],
    [key |-> "first_layer_speed", path |-> <<"speed", "first_layer">>, conv |-> "float"],
    [key |-> "bridge_speed", path |-> <<"speed", "bridge">>, conv |-> "float"],
    [key |-> "external_perimeter_speed", path |-> <<"speed", "outer_wall">>, conv |-> "float"],
    [key |-> "retract_length", path |-> <<"retraction", "distance">>, conv |-> "float"],
    [key |-> "retract_speed", path |-> <<"retraction", "speed">>, conv |-> "float"],
    [key |-> "retract_before_travel", path |-> <<"retraction", "min_travel">>, conv |-> "float"],
    [key |-> "cooling", path |-> <<"cooling", "enabled">>, conv |-> "eq1"],
    [key |-> "fan_below_layer_time", path |-> <<"cooling", "fan_min_layer_time">>, conv |-> "int"],
    [key |-> "slow_down_layer_time", path |-> <<"cooling", "slow_down_layer_time">>, conv |-> "int"],
    [key |-> "min_fan_speed", path |-> <<"cooling", "fan_min">>, conv |-> "float"],
    [key |-> "max_fan_speed", path |-> <<"cooling", "fan_max">>, conv |-> "float"],
    [key |-> "bridge_fan_speed", path |-> <<"cooling", "fan_bridge">>, conv |-> "float"],
    [key |-> "support_material", path |-> <<"supports", "enabled_default">>, conv |-> "eq1"],
    [key |-> "support_material_angle", path |-> <<"supports", "angle">>, conv |-> "float"],
    [key |-> "support_material_threshold", path |-> <<"supports", "overhang_threshold">>, conv |-> "float"],
    [key |-> "support_material_pattern", path |-> <<"supports", "pattern">>, conv |-> "str"],
    [key |-> "raft_layers", path |-> <<"adhesion", "raft_layers">>, conv |-> "int"],
    [key |-> "brim_width", path |-> <<"adhesion", "brim_width">>, conv |-> "float"],
    [key |-> "skirts", path |-> <<"adhesion", "skirt_count">>, conv |-> "int"],
    [key |-> "skirt_distance", path |-> <<"adhesion", "skirt_distance">>, conv |-> "float"],
    [key |-> "notes", path |-> <<"notes">>, conv |-> "str"]
  >>

MATERIAL_MAP ==
  <<
    [key |-> <<"p", "l", "a">>, val |-> <<"P", "L", "A">>],
    [key |-> <<"p", "e", "t">>, val |-> <<"P", "E", "T", "G">>],
    [key |-> <<"p", "e", "t", "g">>, val |-> <<"P", "E", "T", "G">>],
    [key |-> <<"a", "b", "s">>, val |-> <<"A", "B", "S">>],
    [key |-> <<"a", "s", "a">>, val |-> <<"A", "S", "A">>],
    [key |-> <<"t", "p", "u">>, val |-> <<"T", "P", "U">>],
    [key |-> <<"t", "p", "e">>, val |-> <<"T", "P", "E">>],
    [key |-> <<"p", "a">>, val |-> <<"P", "A", "6">>],
    [key |-> <<"n", "y", "l", "o", "n">>, val |-> <<"P", "A", "6">>],
    [key |-> <<"p", "c">>, val |-> <<"P", "C">>],
    [key |-> <<"p", "p">>, val |-> <<"P", "P">>],
    [key |-> <<"p", "v", "a">>, val |-> <<"P", "V", "A">>],
    [key |-> <<"h", "i", "p", "s">>, val |-> <<"H", "I", "P", "S">>],
    [key |-> <<"p", "v", "b">>, val |-> <<"P", "V", "B">>]
  >>

KINEMATICS_MAP ==
  <<
    [key |-> <<"c", "a", "r", "t", "e", "s", "i", "a", "n">>, val |-> <<"c", "a", "r", "t", "e", "s", "i", "a", "n">>],
    [key |-> <<"c", "o", "r", "e", "x", "y">>, val |-> <<"c", "o", "r", "e", "x", "y">>],
    [key |-> <<"c", "o", "r", "e", "x", "z">>, val |-> <<"c", "o", "r", "e", "x", "z">>],
    [key |-> <<"d", "e", "l", "t", "a">>, val |-> <<"d", "e", "l", "t", "a">>],
    [key |-> <<"h", "y", "b", "r", "i", "d", "_", "c", "o", "r", "e", "x", "y">>, val |-> <<"h", "y", "b", "r", "i", "d", "_", "c", "o", "r", "e", "x", "y">>]
  >>

\* the default profile of convert_printer (lines 206-261)
printer_skeleton ==
    DictV([
        op3d_schema |-> StrV(<<"p", "r", "i", "n", "t", "e", "r">>),
        op3d_schema_version |-> StrV(<<"0", ".", "1", ".", "0">>),
        id |-> StrV(<<"U", "n", "k", "n", "o", "w", "n", "/", "U", "n", "k", "n", "o", "w", "n">>),
        maintainer |-> DictV([
            name |-> StrV(<<"I", "m", "p", "o", "r", "t", "e", "d", " ", "f", "r", "o", "m", " ", "P", "r", "u", "s", "a", "S", "l", "i", "c", "e", "r">>),
            maintainer_type |-> StrV(<<"c", "o", "m", "m", "u", "n", "i", "t", "y">>)]),
        manufacturer |-> StrV(<<"U", "n", "k", "n", "o", "w", "n">>),
        model |-> StrV(<<"U", "n", "k", "n", "o", "w", "n">>),
        variant |-> StrV(<<"S", "t", "o", "c", "k">>),
        build_volume |-> DictV([
            x |-> IntV(200),
            y |-> IntV(200),
            z |-> IntV(200),
            shape |-> StrV(<<"r", "e", "c", "t", "a", "n", "g", "u", "l", "a", "r">>),
            origin |-> StrV(<<"f", "r", "o", "n", "t", "_", "l", "e", "f", "t">>)]),
        kinematics |-> StrV(<<"c", "a", "r", "t", "e", "s", "i", "a", "n">>),
        axes |-> DictV([
            x |-> DictV([max_speed |-> IntV(300), max_accel |-> IntV(3000)]),
            y |-> DictV([max_speed |-> IntV(300), max_accel |-> IntV(3000)]),
            z |-> DictV([max_speed |-> IntV(12), max_accel |-> IntV(500)])]),
        extruders |-> ListV(<<DictV([
                id |-> StrV(<<"t", "o", "o", "l", "0">>),
                nozzle_diameter |-> FloatV(4000),
                nozzle_material |-> StrV(<<"b", "r", "a", "s", "s">>),
                max_temp |-> IntV(300),
                min_temp |-> IntV(0),
                retraction_supported |-> BoolV(TRUE)])>>),
        bed |-> DictV([heated |-> BoolV(TRUE), max_temp |-> IntV(120)]),
        chamber |-> DictV([heated |-> BoolV(FALSE), passive |-> BoolV(FALSE)]),
        firmware |-> DictV([flavor |-> StrV(<<"o", "t", "h", "e", "r">>)]),
        network |-> DictV([
            has_wifi |-> BoolV(FALSE),
            has_ethernet |-> BoolV(FALSE),
            supports_lan_api |-> BoolV(FALSE)]),
        external_ids |-> EmptyDict,
        links |-> EmptyDict,
        tags |-> ListV(<<>>),
        notes |-> StrV(<< >>),
        x_prusaslicer |-> EmptyDict])

\* the default profile of convert_filament (lines 303-336)
filament_skeleton ==
    DictV([
        op3d_schema |-> StrV(<<"f", "i", "l", "a", "m", "e", "n", "t">>),
        op3d_schema_version |-> StrV(<<"0", ".", "1", ".", "0">>),
        id |-> StrV(<<"U", "n", "k", "n", "o", "w", "n", "/", "U", "n", "k", "n", "o", "w", "n">>),
        maintainer |-> DictV([
            name |-> StrV(<<"I", "m", "p", "o", "r", "t", "e", "d", " ", "f", "r", "o", "m", " ", "P", "r", "u", "s", "a", "S", "l", "i", "c", "e", "r">>),
            maintainer_type |-> StrV(<<"c", "o", "m", "m", "u", "n", "i", "t", "y">>)]),
        brand |-> StrV(<<"U", "n", "k", "n", "o", "w", "n">>),
        name |-> StrV(<<"U", "n", "k", "n", "o", "w", "n">>),
        material |-> StrV(<<"P", "L", "A">>),
        diameter |-> FloatV(17500),
        nozzle |-> DictV([min |-> IntV(180), max |-> IntV(250), recommended |-> IntV(200)]),
        bed |-> DictV([min |-> IntV(0), max |-> IntV(100), recommended |-> IntV(50)]),
        fan |-> DictV([min |-> IntV(0), max |-> IntV(100), recommended |-> IntV(100)]),
        volumetric_speed |-> IntV(8),
        external_ids |-> EmptyDict,
        links |-> EmptyDict,
        tags |-> ListV(<<>>),
        notes |-> StrV(<< >>),
        x_prusaslicer |-> EmptyDict])

\* the default profile of convert_process (lines 390-451)
process_skeleton ==
    DictV([
        op3d_schema |-> StrV(<<"p", "r", "o", "c", "e", "s", "s">>),
        op3d_schema_version |-> StrV(<<"0", ".", "1", ".", "0">>),
        id |-> StrV(<<"S", "t", "a", "n", "d", "a", "r", "d", "/", "I", "m", "p", "o", "r", "t", "e", "d">>),
        maintainer |-> DictV([
            name |-> StrV(<<"I", "m", "p", "o", "r", "t", "e", "d", " ", "f", "r", "o", "m", " ", "P", "r", "u", "s", "a", "S", "l", "i", "c", "e", "r">>),
            maintainer_type |-> StrV(<<"c", "o", "m", "m", "u", "n", "i", "t", "y">>)]),
        name |-> StrV(<<"I", "m", "p", "o", "r", "t", "e", "d", " ", "P", "r", "o", "f", "i", "l", "e">>),
        intent |-> StrV(<<"s", "t", "a", "n", "d", "a", "r", "d">>),
        layer_height |-> DictV([min |-> FloatV(500), max |-> FloatV(4000), default |-> FloatV(2000)]),
        wall_settings |-> DictV([wall_count |-> IntV(2), top_layers |-> IntV(3), bottom_layers |-> IntV(3)]),
        infill |-> DictV([
            density_default |-> IntV(20),
            density_range |-> DictV([min |-> IntV(0), max |-> IntV(100)]),
            recommended_patterns |-> ListV(<<StrV(<<"g", "y", "r", "o", "i", "d">>), StrV(<<"g", "r", "i", "d">>), StrV(<<"c", "u", "b", "i", "c">>)>>)]),
        speed |-> DictV([
            outer_wall |-> IntV(30),
            inner_wall |-> IntV(60),
            infill |-> IntV(60),
            top_bottom |-> IntV(30),
            travel |-> IntV(150)]),
        accel |-> DictV([default |-> IntV(3000), outer_wall |-> IntV(1000), infill |-> IntV(3000)]),
        retraction |-> DictV([distance |-> FloatV(8000), speed |-> IntV(35)]),
        cooling |-> DictV([fan_default |-> IntV(100), fan_min_layer_time |-> IntV(10)]),
        supports |-> DictV([enabled_default |-> BoolV(FALSE), overhang_threshold |-> IntV(45)]),
        adhesion |-> DictV([default_type |-> StrV(<<"s", "k", "i", "r", "t">>), brim_width |-> IntV(0)]),
        quality_bias |-> DictV([priority |-> StrV(<<"b", "a", "l", "a", "n", "c", "e", "d">>)]),
        external_ids |-> EmptyDict,
        links |-> EmptyDict,
        tags |-> ListV(<<>>),
        notes |-> StrV(<< >>),
        x_prusaslicer |-> EmptyDict])

-----------------------------------------------------------------------------
(* The importer, tools/import_prusaslicer.py.  A section is the function     *)
(* option name -> raw string of one section of the parsed file.             *)

\* carry on with F on the value of r unless r raised
Then(r, F(_)) == IF r.exc # "none" THEN r ELSE F(r.val)

\* config.has_option(section, key) and config.get(section, key, fallback = ...)
has_option(sec, key) == key \in DOMAIN sec
config_get(sec, key, fallback) == IF key \in DOMAIN sec THEN sec[key] ELSE fallback

\* profile[key] = x and profile[k1][k2] = x
SetKey(node, key, x) == DictV(Put(node.v, key, x))
SetKey2(node, k1, k2, x) == SetKey(node, k1, SetKey(node.v[k1], k2, x))

\* the table's converter applied to a raw string: str, float, int, lambda v: v == "1"
converter(conv, raw) ==
    CASE conv = "str" -> Ok(StrV(raw))
      [] conv = "float" -> py_float(raw)
      [] conv = "int" -> py_int(raw)
      [] conv = "eq1" -> Ok(BoolV(raw = <<"1">>))

\* the mapping loop of convert_printer, convert_filament and convert_process:
\* for each table entry, in order, whose key the section has, convert the raw
\* value and write it at the entry's path; ValueError and TypeError skip the entry
RECURSIVE apply_mappings(_, _, _, _)
apply_mappings(prof, sec, MAPPINGS, i) ==
    IF i > Len(MAPPINGS) THEN Ok(prof)
    ELSE IF ~has_option(sec, MAPPINGS[i].key) THEN apply_mappings(prof, sec, MAPPINGS, i + 1)
    ELSE
        LET c == converter(MAPPINGS[i].conv, sec[MAPPINGS[i].key])
            w == set_nested(prof, MAPPINGS[i].path, c.val)
        IN  IF c.exc # "none" THEN apply_mappings(prof, sec, MAPPINGS, i + 1)
            ELSE IF w.exc \in {"none", "ValueError", "TypeError"}
            THEN apply_mappings(w.val, sec, MAPPINGS, i + 1)
            ELSE w

\* stash_raw_settings without the filter on the table's keys: every option of the
\* section is stashed, mapped or not
stash_every_setting(prof, sec, MAPPINGS) ==
    SetKey(prof, "x_prusaslicer", DictV([k \in DOMAIN sec |-> StrV(sec[k])]))

\* raw_settings: the options of the section that are no key of the table, with
\* their raw strings; the profile's x_prusaslicer is replaced only if there are any
stash_raw_settings(prof, sec, MAPPINGS) ==
    LET mapped == {MAPPINGS[i].key : i \in 1..Len(MAPPINGS)}
        raw_settings == [k \in DOMAIN sec \ mapped |-> StrV(sec[k])]
    IN  IF DOMAIN raw_settings # {} THEN SetKey(prof, "x_prusaslicer", DictV(raw_settings)) ELSE prof

infer_kinematics(sec) ==
    LET printer_type == str_lower(config_get(sec, "printer_type", << >>))
        printer_notes == str_lower(config_get(sec, "printer_notes", << >>))
        hits == {i \in 1..Len(KINEMATICS_MAP) :
                    \/ str_contains(printer_type, KINEMATICS_MAP[i].key)
                    \/ str_contains(printer_notes, KINEMATICS_MAP[i].key)}
    IN  IF hits = {} THEN <<"c", "a", "r", "t", "e", "s", "i", "a", "n">>
        ELSE KINEMATICS_MAP[CHOOSE i \in hits : \A j \in hits : i <= j].val

\* a character of the class [-\d.]
IsCoordChar(c) == IsDigit(c) \/ c \in {"-", "."}

\* the end of the longest run of [-\d.] characters that starts at i
RunEnd(s, i) == CHOOSE j \in i..Len(s) :
                    /\ \A k \in i..j : IsCoordChar(s[k])
                    /\ (j = Len(s) \/ ~IsCoordChar(s[j + 1]))

\* re.findall(r"[-\d.]+,[-\d.]+", s) from position i on, each match split at ","
RECURSIVE findall_coords(_, _)
findall_coords(s, i) ==
    IF i > Len(s) THEN << >>
    ELSE IF IsCoordChar(s[i]) THEN
        LET j == RunEnd(s, i)
        IN  IF j + 2 <= Len(s) /\ s[j + 1] = "," /\ IsCoordChar(s[j + 2])
            THEN <<[x |-> SubSeq(s, i, j), y |-> SubSeq(s, j + 2, RunEnd(s, j + 2))]>>
                     \o findall_coords(s, RunEnd(s, j + 2) + 1)
            ELSE findall_coords(s, i + 1)
    ELSE findall_coords(s, i + 1)

\* max(xs) - min(xs) of floats
Extent(xs) ==
    LET vs == {xs[i].v : i \in 1..Len(xs)}
    IN  FloatV((CHOOSE a \in vs : \A b \in vs : a >= b) - (CHOOSE a \in vs : \A b \in vs : a <= b))

parse_bed_dimensions(bed_shape) ==
    LET coords == findall_coords(bed_shape, 1)
        xs == [i \in 1..Len(coords) |-> py_float(coords[i].x)]
        ys == [i \in 1..Len(coords) |-> py_float(coords[i].y)]
        default == DictV([x |-> IntV(200), y |-> IntV(200)])
    IN  IF bed_shape = << >> THEN Ok(default)
        ELSE IF coords = << >> THEN Ok(default)
        ELSE IF \E i \in 1..Len(coords) : xs[i].exc # "none" \/ ys[i].exc # "none"
        THEN Raise("ValueError", NoValue)
        ELSE Ok(DictV([x |-> Extent([i \in 1..Len(coords) |-> xs[i].val]),
                       y |-> Extent([i \in 1..Len(coords) |-> ys[i].val])]))

normalize_material(material) ==
    LET mat_lower == str_replace(str_replace(str_lower(material), "-", << >>), "_", << >>)
        hit == {i \in 1..Len(MATERIAL_MAP) : MATERIAL_MAP[i].key = mat_lower}
    IN  IF hit # {} THEN MATERIAL_MAP[CHOOSE i \in hit : TRUE].val
        ELSE IF material # << >> THEN str_upper(material)
        ELSE <<"P", "L", "A">>

parse_percentage(raw) ==
    IF str_contains(raw, <<"%">>)
    THEN py_float(str_strip(str_replace(raw, "%", << >>)))
    ELSE py_float(raw)

\* a float plus or times a decimal constant given times Scale
FloatAdd(f, k) == FloatV(f.v + k)
FloatMul(f, k) == FloatV((f.v * k) \div Scale)

Unknown == <<"U", "n", "k", "n", "o", "w", "n">>

convert_printer(sec) ==
    Then(apply_mappings(printer_skeleton, sec, PRINTER_MAPPINGS, 1), LAMBDA p1 :
    Then(IF config_get(sec, "bed_shape", << >>) # << >>
         THEN Then(parse_bed_dimensions(sec["bed_shape"]), LAMBDA dims :
                   Ok(SetKey2(SetKey2(p1, "build_volume", "x", dict_get(dims, "x", IntV(200))),
                              "build_volume", "y", dict_get(dims, "y", IntV(200)))))
         ELSE Ok(p1), LAMBDA p2 :
    LET p3 == SetKey(p2, "kinematics", StrV(infer_kinematics(sec)))
        model == sec["printer_model"]
        make == config_get(sec, "printer_make", Unknown)
        p4 == SetKey(p3, "id", StrV(str_replace(make \o <<"/">> \o model, " ", <<"-">>)))
        p5 == IF dict_get(p4, "manufacturer", StrV(<< >>)).v \in {<< >>, Unknown}
              THEN SetKey(p4, "manufacturer", StrV(make)) ELSE p4
        p6 == IF dict_get(p5, "model", StrV(<< >>)).v \in {<< >>, Unknown}
              THEN SetKey(p5, "model", StrV(model)) ELSE p5
    IN  Ok(stash_raw_settings(IF has_option(sec, "printer_model") THEN p6 ELSE p3,
                              sec, PRINTER_MAPPINGS))))

convert_filament(sec) ==
    Then(apply_mappings(filament_skeleton, sec, FILAMENT_MAPPINGS, 1), LAMBDA p1 :
    LET p2 == IF has_option(sec, "filament_type")
              THEN SetKey(p1, "material", StrV(normalize_material(sec["filament_type"])))
              ELSE p1
    IN
    Then(IF has_option(sec, "temperature")
         THEN Then(py_float(sec["temperature"]), LAMBDA temp :
                   Ok(SetKey2(SetKey2(SetKey2(p2,
                        "nozzle", "recommended", temp),
                        "nozzle", "min", py_max(IntV(150), FloatAdd(temp, -20 * Scale))),
                        "nozzle", "max", py_min(IntV(300), FloatAdd(temp, 20 * Scale)))))
         ELSE Ok(p2), LAMBDA p3 :
    Then(IF has_option(sec, "bed_temperature")
         THEN Then(py_float(sec["bed_temperature"]), LAMBDA temp :
                   Ok(SetKey2(SetKey2(SetKey2(p3,
                        "bed", "recommended", temp),
                        "bed", "min", py_max(IntV(0), FloatAdd(temp, -10 * Scale))),
                        "bed", "max", py_min(IntV(150), FloatAdd(temp, 10 * Scale)))))
         ELSE Ok(p3), LAMBDA p4 :
    Then(IF has_option(sec, "max_fan_speed")
         THEN Then(py_float(sec["max_fan_speed"]), LAMBDA speed :
                   Ok(SetKey2(p4, "fan", "recommended", speed)))
         ELSE Ok(p4), LAMBDA p5 :
    LET brand == config_get(sec, "filament_vendor", Unknown)
        name == config_get(sec, "filament_name", config_get(sec, "filament_type", Unknown))
        p6 == IF brand # << >> /\ brand # Unknown THEN SetKey(p5, "brand", StrV(brand)) ELSE p5
        p7 == IF name # << >> /\ name # Unknown THEN SetKey(p6, "name", StrV(name)) ELSE p6
        p8 == SetKey(p7, "id", StrV(str_replace(str_replace(
                  py_str(p7.v["brand"]) \o <<"/">> \o py_str(p7.v["name"]), " ", <<"-">>), "/", <<"-">>)))
    IN  Ok(stash_raw_settings(p8, sec, FILAMENT_MAPPINGS))))))

\* float_override without the assignment: what the mapping loop wrote stays
keep_mapped_value(prof, sec, key, k1, k2) == Ok(prof)

\* profile[k1][k2] = float(config.get(section, key)) if the section has key
float_override(prof, sec, key, k1, k2) ==
    IF has_option(sec, key)
    THEN Then(py_float(sec[key]), LAMBDA f : Ok(SetKey2(prof, k1, k2, f)))
    ELSE Ok(prof)

\* the intent tier of a layer height
intent_of(layer_h) ==
    IF NumVal(layer_h) <= 1000 THEN <<"h", "i", "g", "h", "_", "d", "e", "t", "a", "i", "l">>
    ELSE IF NumVal(layer_h) <= 1500 THEN <<"q", "u", "a", "l", "i", "t", "y">>
    ELSE IF NumVal(layer_h) <= 2500 THEN <<"s", "t", "a", "n", "d", "a", "r", "d">>
    ELSE <<"d", "r", "a", "f", "t">>

convert_process(sec) ==
    Then(apply_mappings(process_skeleton, sec, PROCESS_MAPPINGS, 1), LAMBDA p1 :
    Then(IF has_option(sec, "layer_height")
         THEN Then(py_float(sec["layer_height"]), LAMBDA layer_h :
                   Ok(SetKey2(SetKey2(SetKey2(p1,
                        "layer_height", "default", layer_h),
                        "layer_height", "min", py_max(FloatV(500), FloatMul(layer_h, 2500))),
                        "layer_height", "max", py_min(FloatV(4000), FloatMul(layer_h, 2 * Scale)))))
         ELSE Ok(p1), LAMBDA p2 :
    LET fill == sec["fill_density"]
        density == IF str_contains(fill, <<"%">>) THEN parse_percentage(fill)
                   ELSE Then(py_float(fill), LAMBDA f : Ok(FloatMul(f, 100 * Scale)))
        p3 == IF has_option(sec, "fill_density") /\ density.exc = "none"
              THEN SetKey2(p2, "infill", "density_default", density.val)
              ELSE p2
    IN
    Then(float_override(p3, sec, "perimeter_speed", "speed", "outer_wall"), LAMBDA p4 :
    Then(float_override(p4, sec, "infill_speed", "speed", "infill"), LAMBDA p5 :
    Then(float_override(p5, sec, "travel_speed", "speed", "travel"), LAMBDA p6 :
    Then(float_override(p6, sec, "retract_length", "retraction", "distance"), LAMBDA p7 :
    Then(float_override(p7, sec, "retract_speed", "retraction", "speed"), LAMBDA p8 :
    LET name == config_get(sec, "name", <<"I", "m", "p", "o", "r", "t", "e", "d", " ", "P", "r", "o", "f", "i", "l", "e">>)
        p9 == SetKey(p8, "name", StrV(name))
        layer_h == p9.v["layer_height"].v["default"]
        p10 == SetKey(p9, "id", StrV(str_replace(
                   <<"S", "t", "a", "n", "d", "a", "r", "d", "/">> \o py_str(layer_h)
                       \o <<"m", "m", "-">> \o name, " ", <<"-">>)))
        p11 == SetKey(p10, "intent", StrV(intent_of(layer_h)))
    IN  Ok(stash_raw_settings(p11, sec, PROCESS_MAPPINGS)))))))))

\* convert_profile without the dispatch on profile_type: always the printer converter
convert_as_printer(sec, profile_type) == convert_printer(sec)

\* convert_profile(config, profile_type)
convert_profile(sec, profile_type) ==
    CASE profile_type = "printer" -> convert_printer(sec)
      [] profile_type = "filament" -> convert_filament(sec)
      [] profile_type = "process" -> convert_process(sec)
      [] OTHER -> Raise("ValueError", NoValue)

-----------------------------------------------------------------------------
(* The exporters, tools/convert_profile.py *)

\* the truth value of x in "if x:"
Truthy(x) ==
    CASE x.t \in {"dict"} -> DOMAIN x.v # {}
      [] x.t \in {"list", "str"} -> Len(x.v) > 0
      [] x.t \in {"int", "float"} -> x.v # 0
      [] x.t = "bool" -> x.v
      [] OTHER -> FALSE

s_filament == StrV(<<"f", "i", "l", "a", "m", "e", "n", "t">>)
s_printer == StrV(<<"p", "r", "i", "n", "t", "e", "r">>)
s_PLA == StrV(<<"P", "L", "A">>)

\* nozzle, bed and fan of the profile, {} where absent; .get on them needs mappings
Sections3(prof) ==
    [nozzle |-> dict_get(prof, "nozzle", EmptyDict),
     bed |-> dict_get(prof, "bed", EmptyDict),
     fan |-> dict_get(prof, "fan", EmptyDict)]
AllDicts(r) == \A k \in DOMAIN r : r[k].t = "dict"

\* profile.get("extruders", [{}])[0]
first_extruder(prof) ==
    LET extruders == dict_get(prof, "extruders", ListV(<<EmptyDict>>))
    IN  IF extruders.t = "list" THEN
            IF Len(extruders.v) > 0 THEN Ok(extruders.v[1]) ELSE Raise("IndexError", NoValue)
        ELSE IF extruders.t = "str" THEN
            IF Len(extruders.v) > 0 THEN Ok(StrV(<<extruders.v[1]>>)) ELSE Raise("IndexError", NoValue)
        ELSE IF extruders.t = "dict" THEN
            IF "#0" \in DOMAIN extruders.v THEN Ok(extruders.v["#0"]) ELSE Raise("KeyError", NoValue)
        ELSE Raise("TypeError", NoValue)

\* f"{manufacturer} {model}" with '' for an absent field
machine_name(prof) ==
    py_str(dict_get(prof, "manufacturer", StrV(<< >>))) \o <<" ">> \o py_str(dict_get(prof, "model", StrV(<< >>)))

\* the document convert_to_cura builds from the standard fields (lines 49-62, 68-75)
cura_generated(prof) ==
    LET schema == dict_get(prof, "op3d_schema", StrV(<< >>))
        s == Sections3(prof)
        material == dict_get(prof, "material", StrV(<<"p", "l", "a">>))
        bv == dict_get(prof, "build_volume", EmptyDict)
        bed == dict_get(prof, "bed", EmptyDict)
    IN  IF schema = s_filament THEN
            IF ~AllDicts(s) \/ material.t # "str" THEN Raise("AttributeError", NoValue)
            ELSE Ok(DictV([
                material |-> StrV(str_lower(material.v)),
                print_temperature |-> dict_get(s.nozzle, "recommended", IntV(200)),
                print_temperature_layer_0 |-> dict_get(s.nozzle, "min", IntV(180)),
                bed_temperature |-> dict_get(s.bed, "recommended", IntV(50)),
                bed_temperature_layer_0 |-> dict_get(s.bed, "min", IntV(40)),
                fan_speed |-> dict_get(s.fan, "recommended", IntV(100)),
                fan_speed_layer_0 |-> IntV(0),
                cooling |-> StrV(<<"e", "n", "a", "b", "l", "e", "d">>)]))
        ELSE
            IF bv.t # "dict" \/ bed.t # "dict" THEN Raise("AttributeError", NoValue)
            ELSE Ok(DictV([
                machine_width |-> dict_get(bv, "x", IntV(200)),
                machine_depth |-> dict_get(bv, "y", IntV(200)),
                machine_height |-> dict_get(bv, "z", IntV(200)),
                nozzle_size |-> FloatV(4000),
                heated_bed |-> dict_get(bed, "heated", BoolV(TRUE))]))

\* convert_to_cura without the test of x_cura: the generated document, always
cura_ignoring_extension(prof) == cura_generated(prof)

convert_to_cura(prof) ==
    LET schema == dict_get(prof, "op3d_schema", StrV(<< >>))
        x_cura == dict_get(prof, "x_cura", EmptyDict)
    IN  IF schema = s_filament THEN
            IF Truthy(x_cura) THEN Ok(x_cura) ELSE cura_generated(prof)
        ELSE IF schema = s_printer THEN
            IF Truthy(x_cura) THEN
                IF x_cura.t = "dict" THEN Ok(dict_get(x_cura, "definition_changes", EmptyDict))
                ELSE Raise("AttributeError", NoValue)
            ELSE cura_generated(prof)
        ELSE Ok(EmptyDict)

convert_to_prusaslicer(prof) ==
    LET schema == dict_get(prof, "op3d_schema", StrV(<< >>))
        x_ps == dict_get(prof, "x_prusaslicer", EmptyDict)
        s == Sections3(prof)
        bv == dict_get(prof, "build_volume", EmptyDict)
    IN  IF schema = s_filament THEN
            IF Truthy(x_ps) THEN Ok(x_ps)
            ELSE IF ~AllDicts(s) THEN Raise("AttributeError", NoValue)
            ELSE Ok(DictV([
                filament_type |-> dict_get(prof, "material", s_PLA),
                temperature |-> dict_get(s.nozzle, "recommended", IntV(200)),
                bed_temperature |-> dict_get(s.bed, "recommended", IntV(50)),
                fan_speed |-> dict_get(s.fan, "recommended", IntV(100))]))
        ELSE IF schema = s_printer THEN
            IF Truthy(x_ps) THEN Ok(x_ps)
            ELSE Then(first_extruder(prof), LAMBDA extruder :
                IF extruder.t # "dict" \/ bv.t # "dict" THEN Raise("AttributeError", NoValue)
                ELSE Ok(DictV([
                    printer_model |-> StrV(machine_name(prof)),
                    vendor |-> dict_get(prof, "manufacturer", StrV(Unknown)),
                    filament_diameter |-> FloatV(17500),
                    nozzle_diameter |-> dict_get(extruder, "nozzle_diameter", FloatV(4000)),
                    bed_shape |-> dict_get(bv, "shape", StrV(<<"r", "e", "c", "t", "a", "n", "g", "u", "l", "a", "r">>)),
                    bed_size |-> StrV(py_str(dict_get(bv, "x", IntV(200))) \o <<"x">>
                                          \o py_str(dict_get(bv, "y", IntV(200)))),
                    print_height |-> dict_get(bv, "z", IntV(200))])))
        ELSE Ok(EmptyDict)

convert_to_orca(prof) ==
    LET schema == dict_get(prof, "op3d_schema", StrV(<< >>))
        x_orca == dict_get(prof, "x_orca", EmptyDict)
        s == Sections3(prof)
        bv == dict_get(prof, "build_volume", EmptyDict)
    IN  IF schema = s_filament THEN
            IF Truthy(x_orca) THEN Ok(x_orca)
            ELSE IF ~AllDicts(s) THEN Raise("AttributeError", NoValue)
            ELSE Ok(DictV([
                filament_type |-> dict_get(prof, "material", s_PLA),
                nozzle_temperature |-> dict_get(s.nozzle, "recommended", IntV(200)),
                nozzle_temperature_initial_layer |-> dict_get(s.nozzle, "min", IntV(180)),
                bed_temperature |-> dict_get(s.bed, "recommended", IntV(50)),
                bed_temperature_initial_layer |-> dict_get(s.bed, "min", IntV(40)),
                fan_speed |-> dict_get(s.fan, "recommended", IntV(100)),
                fan_speed_initial_layer |-> IntV(0)]))
        ELSE IF schema = s_printer THEN
            IF Truthy(x_orca) THEN Ok(x_orca)
            ELSE Then(first_extruder(prof), LAMBDA extruder :
                IF extruder.t # "dict" \/ bv.t # "dict" THEN Raise("AttributeError", NoValue)
                ELSE Ok(DictV([
                    machine_name |-> StrV(machine_name(prof)),
                    machine_manufacturer |-> dict_get(prof, "manufacturer", StrV(Unknown)),
                    bed_x |-> dict_get(bv, "x", IntV(200)),
                    bed_y |-> dict_get(bv, "y", IntV(200)),
                    height |-> dict_get(bv, "z", IntV(200)),
                    nozzle_diameter |-> dict_get(extruder, "nozzle_diameter", FloatV(4000)),
                    filament_diameter |-> FloatV(17500)])))
        ELSE Ok(EmptyDict)

convert_to_bambu(prof) ==
    LET schema == dict_get(prof, "op3d_schema", StrV(<< >>))
        x_bambu == dict_get(prof, "x_bambu", EmptyDict)
        s == Sections3(prof)
        material == dict_get(prof, "material", s_PLA)
        manufacturer == dict_get(prof, "manufacturer", StrV(<< >>))
        model == dict_get(prof, "model", StrV(<< >>))
    IN  IF schema = s_filament THEN
            IF Truthy(x_bambu) THEN Ok(x_bambu)
            ELSE IF ~AllDicts(s) THEN Raise("AttributeError", NoValue)
            ELSE IF material.t # "str" THEN Raise("TypeError", NoValue)
            ELSE Ok(DictV([
                filament_type_id |-> StrV(<<"G">> \o SubSeq(material.v, 1, IF Len(material.v) < 4 THEN Len(material.v) ELSE 4)
                                              \o <<"0", "0">>),
                drying_temperature |-> IntV(55),
                drying_time |-> IntV(4),
                nozzle_temperature |-> ListV(<<dict_get(s.nozzle, "min", IntV(190)), dict_get(s.nozzle, "max", IntV(230))>>),
                bed_temperature |-> ListV(<<dict_get(s.bed, "min", IntV(40)), dict_get(s.bed, "max", IntV(60))>>),
                fan_speed |-> ListV(<<dict_get(s.fan, "min", IntV(50)), dict_get(s.fan, "max", IntV(100))>>)]))
        ELSE IF schema = s_printer THEN
            IF Truthy(x_bambu) THEN Ok(x_bambu)
            ELSE IF manufacturer.t # "str" \/ model.t # "str" THEN Raise("AttributeError", NoValue)
            ELSE Ok(DictV([
                product_id |-> StrV(str_lower(manufacturer.v) \o <<"_">>
                                        \o str_replace(str_replace(str_lower(model.v), "-", << >>), " ", << >>)
                                        \o <<"_", "0", "0">>),
                series |-> dict_get(prof, "model", StrV(Unknown)),
                support_lidar |-> BoolV(FALSE),
                support_ams |-> BoolV(FALSE),
                support_ams_lite |-> BoolV(FALSE)]))
        ELSE Ok(EmptyDict)

\* converters[args.slicer] of main
converter_for(slicer, prof) ==
    CASE slicer = "cura" -> convert_to_cura(prof)
      [] slicer = "prusaslicer" -> convert_to_prusaslicer(prof)
      [] slicer = "orca" -> convert_to_orca(prof)
      [] slicer = "bambu" -> convert_to_bambu(prof)

-----------------------------------------------------------------------------
(* Inputs *)

\* the largest number of options in a drawn source section
MaxKeys == 2

Kinds == {"printer", "filament", "process"}
Dialects == {"cura", "prusaslicer", "orca", "bambu"}

\* the raw strings an option of a drawn section may hold, per kind: options each
\* table maps (well-formed and malformed text) and options it does not map
PrinterPool ==
         ("printer_model" :> {<<"X", "1">>, <<"X", " ", "1">>})
      @@ ("printer_make" :> {<<"A", "c", "m", "e">>})
      @@ ("nozzle_diameter" :> {<<"0", ".", "4">>, <<"0", ".", "6">>, <<"w", "i", "d", "e">>})
      @@ ("bed_shape" :> {<<"0", "x", "0", ",", "2", "5", "0", "x", "0", ",", "2", "5", "0", "x", "2", "5", "0", ",", "0", "x", "2", "5", "0">>, <<"0", "x", "0", ",", "2", "0", "0", "x", "0", ",", "2", "0", "0", "x", "3", "0", "0", ",", "0", "x", "3", "0", "0">>})
      @@ ("min_layer_height" :> {<<"0", ".", "1">>})
      @@ ("printer_notes" :> {<<"C", "o", "r", "e", "X", "Y">>})
      @@ ("gcode_flavor" :> {<<"m", "a", "r", "l", "i", "n">>})

FilamentPool ==
         ("filament_type" :> {<<"P", "L", "A">>, <<"p", "e", "t">>})
      @@ ("filament_vendor" :> {<<"A", "c", "m", "e">>})
      @@ ("filament_diameter" :> {<<"2", ".", "8", "5">>})
      @@ ("temperature" :> {<<"2", "0", "5">>, <<"h", "o", "t">>})
      @@ ("bed_temperature" :> {<<"6", "0">>})
      @@ ("fan_min_speed" :> {<<"3", "5">>, <<"l", "o", "w">>})
      @@ ("disable_fan_first_layers" :> {<<"3">>, <<"1", ".", "5">>})
      @@ ("max_fan_speed" :> {<<"8", "0">>})
      @@ ("filament_name" :> {<<"S", "k", "y", " ", "B", "l", "u", "e">>})

ProcessPool ==
         ("layer_height" :> {<<"0", ".", "1">>, <<"0", ".", "3">>, <<"t", "h", "i", "n">>})
      @@ ("fill_density" :> {<<"1", "5", "%">>, <<"0", ".", "2">>})
      @@ ("perimeters" :> {<<"3">>})
      @@ ("perimeter_speed" :> {<<"4", "5">>})
      @@ ("external_perimeter_speed" :> {<<"2", "5">>})
      @@ ("cooling" :> {<<"1">>, <<"0">>})
      @@ ("retract_length" :> {<<"l", "o", "n", "g">>})
      @@ ("name" :> {<<"F", "i", "n", "e">>})
      @@ ("gcode_comments" :> {<<"1">>})

Pool(k) == CASE k = "printer" -> PrinterPool [] k = "filament" -> FilamentPool [] k = "process" -> ProcessPool

\* the minimal printer section of the documented import scenario
ScenarioPrinter ==
    [printer_model |-> <<"X", "1">>, printer_make |-> <<"A", "c", "m", "e">>,
     nozzle_diameter |-> <<"0", ".", "4">>,
     bed_shape |-> <<"0", "x", "0", ",", "2", "5", "0", "x", "0", ",", "2", "5", "0", "x", "2", "5", "0", ",", "0", "x", "2", "5", "0">>]

\* every section of at most MaxKeys options over the kind's pool
Sections(k) ==
    LET pool == Pool(k)
        raws == UNION {pool[o] : o \in DOMAIN pool}
    IN  UNION {{sec \in [opts -> raws] : \A o \in opts : sec[o] \in pool[o]} :
                  opts \in {os \in SUBSET DOMAIN pool : Cardinality(os) <= MaxKeys}}
        \cup (IF k = "printer" THEN {ScenarioPrinter} ELSE {})

-----------------------------------------------------------------------------
(* Import, export and re-import of one section *)

\* ConfigParser.read_dict on an exported document: every value becomes its str()
read_dict(doc) == [k \in DOMAIN doc.v |-> py_str(doc.v[k])]

\* the variables of the comparison and of the batch runs, where a run has none
IdleDiff ==
    /\ profile1 = NoValue
    /\ profile2 = NoValue
    /\ key_order = << >>
    /\ show_common = FALSE
    /\ result = NoValue

IdleBatch ==
    /\ args = NoValue
    /\ fs0 = << >>
    /\ fs = << >>
    /\ todo = {}
    /\ emitted = << >>
    /\ diagnostics = {}
    /\ status = "none"

InitImport ==
    /\ pc = "start"
    /\ kind \in Kinds
    /\ section \in Sections(kind)
    /\ profile = NoValue
    /\ exc = "none"
    /\ dialect = "none"
    /\ exported = NoValue
    /\ reimported = NoValue
    /\ d = NoValue
    /\ path = << >>
    /\ value = NoValue
    /\ after = NoValue
    /\ IdleDiff
    /\ IdleBatch

\* profile = convert_profile(config, profile_type)
Import ==
    /\ pc = "start"
    /\ LET r == convert_profile(section, kind)
       IN  /\ pc' = IF r.exc = "none" THEN "imported" ELSE "import_raised"
           /\ profile' = r.val
           /\ exc' = r.exc
    /\ UNCHANGED <<kind, section, dialect, exported, reimported, d, path, value, after>>
    /\ UNCHANGED <<diffVars, batchVars>>

\* converted = converter(profile), for the slicer chosen on the command line
Export ==
    /\ pc \in {"imported", "authored"}
    /\ \E slicer \in Dialects :
        LET r == converter_for(slicer, profile)
        IN  /\ pc' = IF r.exc = "none" THEN "exported" ELSE "export_raised"
            /\ dialect' = slicer
            /\ exported' = r.val
            /\ exc' = r.exc
    /\ UNCHANGED <<kind, section, profile, reimported, d, path, value, after>>
    /\ UNCHANGED <<diffVars, batchVars>>

\* the exported document imported again as the same kind
Reimport ==
    /\ pc = "exported"
    /\ section # NoValue
    /\ exported.t = "dict"
    /\ LET r == convert_profile(read_dict(exported), kind)
       IN  /\ pc' = IF r.exc = "none" THEN "reimported" ELSE "reimport_raised"
           /\ reimported' = r.val
           /\ exc' = r.exc
    /\ UNCHANGED <<kind, section, profile, dialect, exported, d, path, value, after>>
    /\ UNCHANGED <<diffVars, batchVars>>

NextImport == Import \/ Export \/ Reimport

SpecImport == InitImport /\ [][NextImport]_vars

-----------------------------------------------------------------------------
(* Export of a stored profile: the profiles main loads from the JSON files   *)
(* named on the command line                                               *)

\* the profile's vendor-extension key of a slicer
XKey(slicer) ==
    CASE slicer = "cura" -> "x_cura"
      [] slicer = "prusaslicer" -> "x_prusaslicer"
      [] slicer = "orca" -> "x_orca"
      [] slicer = "bambu" -> "x_bambu"

\* a field that may be absent: no entry, or key with one of the values
Opt(key, vals) == {<< >>} \cup {key :> x : x \in vals}

\* the extension blocks a stored profile may carry: none, an empty one or one of blocks
ExtBlocks(blocks) ==
    {<< >>} \cup {XKey(slicer) :> b : slicer \in Dialects, b \in {EmptyDict} \cup blocks}

FilamentProfiles ==
    {DictV(("op3d_schema" :> s_filament) @@ m @@ n @@ b @@ f @@ x) :
        m \in Opt("material", {s_PLA}),
        n \in Opt("nozzle", {DictV([recommended |-> IntV(205)]),
                             DictV([min |-> IntV(190), max |-> IntV(220), recommended |-> IntV(205)])}),
        b \in Opt("bed", {DictV([min |-> IntV(55), max |-> IntV(65), recommended |-> IntV(60)])}),
        f \in Opt("fan", {DictV([min |-> IntV(20), max |-> IntV(90), recommended |-> IntV(80)])}),
        x \in ExtBlocks({DictV([print_temperature |-> IntV(999)])})}

PrinterProfiles ==
    {DictV(("op3d_schema" :> s_printer) @@ m @@ bv @@ e @@ b @@ x) :
        m \in {<< >>, [manufacturer |-> StrV(<<"A", "c", "m", "e">>), model |-> StrV(<<"X", "-", "1", " ", "S">>)]},
        bv \in Opt("build_volume", {DictV([x |-> IntV(250), y |-> IntV(210), z |-> IntV(220)])}),
        e \in Opt("extruders", {ListV(<< >>), ListV(<<DictV([nozzle_diameter |-> FloatV(6000)])>>)}),
        b \in Opt("bed", {DictV([heated |-> BoolV(FALSE)])}),
        x \in ExtBlocks({DictV([machine_width |-> IntV(300)]),
                         DictV([definition_changes |-> DictV([machine_width |-> IntV(300)])])})}

ProcessProfiles ==
    {DictV(("op3d_schema" :> StrV(<<"p", "r", "o", "c", "e", "s", "s">>)) @@ l @@ x) :
        l \in Opt("layer_height", {DictV([default |-> FloatV(2000)])}),
        x \in ExtBlocks({DictV([layer_height |-> StrV(<<"0", ".", "2">>)])})}

StoredProfiles(k) ==
    CASE k = "printer" -> PrinterProfiles
      [] k = "filament" -> FilamentProfiles
      [] k = "process" -> ProcessProfiles

InitExport ==
    /\ pc = "authored"
    /\ kind \in Kinds
    /\ profile \in StoredProfiles(kind)
    /\ section = NoValue
    /\ exc = "none"
    /\ dialect = "none"
    /\ exported = NoValue
    /\ reimported = NoValue
    /\ d = NoValue
    /\ path = << >>
    /\ value = NoValue
    /\ after = NoValue
    /\ IdleDiff
    /\ IdleBatch

SpecExport == InitExport /\ [][Export]_vars

-----------------------------------------------------------------------------
(* One call of set_nested *)

\* the longest path written
MaxPathLen == 3

PathSegs == {"a", "k", "0", "1"}
Paths == UNION {[1..n -> PathSegs] : n \in 1..MaxPathLen}

\* the values of one more level of nesting over the values in below: a scalar,
\* the mappings over the keys a and k, and the lists of at most one element
Nest(below) ==
    {IntV(7)}
        \cup {DictV(f) : f \in UNION {[ks -> below] : ks \in SUBSET {"a", "k"}}}
        \cup {ListV(<< >>)} \cup {ListV(<<x>>) : x \in below}

Containers == {c \in Nest(Nest({IntV(7)})) : c.t = "dict"}

InitPath ==
    /\ pc = "path_start"
    /\ d \in Containers
    /\ path \in Paths
    /\ value = IntV(5)
    /\ after = NoValue
    /\ exc = "none"
    /\ kind = "none"
    /\ section = NoValue
    /\ profile = NoValue
    /\ dialect = "none"
    /\ exported = NoValue
    /\ reimported = NoValue
    /\ IdleDiff
    /\ IdleBatch

\* set_nested(d, path, value)
SetNested ==
    /\ pc = "path_start"
    /\ LET r == set_nested(d, path, value)
       IN  /\ after' = r.val
           /\ exc' = r.exc
    /\ pc' = "path_done"
    /\ UNCHANGED <<kind, section, profile, dialect, exported, reimported, d, path, value>>
    /\ UNCHANGED <<diffVars, batchVars>>

SpecPath == InitPath /\ [][SetNested]_vars

-----------------------------------------------------------------------------
(* What the claims speak of *)

MAPPINGS_of(k) ==
    CASE k = "printer" -> PRINTER_MAPPINGS
      [] k = "filament" -> FILAMENT_MAPPINGS
      [] k = "process" -> PROCESS_MAPPINGS

skeleton_of(k) ==
    CASE k = "printer" -> printer_skeleton
      [] k = "filament" -> filament_skeleton
      [] k = "process" -> process_skeleton

\* the keys of the kind's mapping table
MappedKeys(k) == {MAPPINGS_of(k)[i].key : i \in 1..Len(MAPPINGS_of(k))}

\* the entries of the kind's table whose key the section has
PresentEntries(k, sec) == {i \in 1..Len(MAPPINGS_of(k)) : MAPPINGS_of(k)[i].key \in DOMAIN sec}

\* the value read at a path from a root, NoValue where the path does not lead to
\* one: a digit segment indexes a list (or is the integer key of a mapping), any
\* other segment is a key of a mapping
RECURSIVE ReadPath(_, _)
ReadPath(node, keys) ==
    IF keys = << >> THEN node
    ELSE
        LET key == Head(keys)
        IN  IF IsDigit(key) THEN
                IF node.t = "list" /\ DigitVal(key) < Len(node.v)
                THEN ReadPath(node.v[DigitVal(key) + 1], Tail(keys))
                ELSE IF node.t = "dict" /\ IntKeys[DigitVal(key) + 1] \in DOMAIN node.v
                THEN ReadPath(node.v[IntKeys[DigitVal(key) + 1]], Tail(keys))
                ELSE NoValue
            ELSE
                IF node.t = "dict" /\ key \in DOMAIN node.v
                THEN ReadPath(node.v[key], Tail(keys))
                ELSE NoValue

\* the value at the path where there is one, else the default
ReadOr(node, keys, default) ==
    IF ReadPath(node, keys) = NoValue THEN default ELSE ReadPath(node, keys)

\* p is a proper or improper prefix of q
IsPrefix(p, q) == Len(p) <= Len(q) /\ SubSeq(q, 1, Len(p)) = p

-----------------------------------------------------------------------------
(* C1 *)

\* C1: when the section has only keys of the kind's mapping table, importing it,
\* exporting the profile to any dialect and importing the exported document again
\* yields a profile that holds, at the path of every mapped key of the section, the
\* value the first import put there.
C1_MappingRoundTrip ==
    (pc \in {"reimported", "reimport_raised"} /\ DOMAIN section \subseteq MappedKeys(kind)) =>
        /\ pc = "reimported"
        /\ \A i \in PresentEntries(kind, section) :
              PyEq(ReadPath(reimported, MAPPINGS_of(kind)[i].path),
                   ReadPath(profile, MAPPINGS_of(kind)[i].path))

-----------------------------------------------------------------------------
(* C2, C3 *)

\* the profile's extension block for the dialect of the export, {} where absent
ExtensionBlock == dict_get(profile, XKey(dialect), EmptyDict)

\* C2: an export of a filament profile whose extension block for the dialect is
\* non-empty succeeds and returns exactly that block, whatever the standard fields
\* of the profile hold.
C2_FilamentOverride ==
    (pc \in {"exported", "export_raised"} /\ kind = "filament" /\ Truthy(ExtensionBlock)) =>
        /\ pc = "exported"
        /\ exported = ExtensionBlock

\* C2 happens: a filament profile with nozzle.recommended = 205 and
\* x_cura = {print_temperature: 999} was exported to Cura and the block came back
C2_Witness ==
    /\ pc = "exported"
    /\ kind = "filament"
    /\ dialect = "cura"
    /\ ReadPath(profile, <<"nozzle", "recommended">>) = IntV(205)
    /\ ReadPath(profile, <<"x_cura">>) = DictV([print_temperature |-> IntV(999)])
    /\ exported = DictV([print_temperature |-> IntV(999)])

\* C3: an export of a printer or process profile whose extension block for the
\* dialect is non-empty succeeds and returns the whole block, neither a part of it
\* nor an empty document.
C3_NonFilamentOverride ==
    (pc \in {"exported", "export_raised"} /\ kind \in {"printer", "process"} /\ Truthy(ExtensionBlock)) =>
        /\ pc = "exported"
        /\ exported = ExtensionBlock

-----------------------------------------------------------------------------
(* C4 *)

\* the fields an exporter copies from one standard field of the profile, with the
\* path of that field and the literal default the exporter names
CopiedFields(slicer, k) ==
    CASE slicer = "cura" /\ k = "filament" -> {
            [field |-> "print_temperature", path |-> <<"nozzle", "recommended">>, default |-> IntV(200)],
            [field |-> "print_temperature_layer_0", path |-> <<"nozzle", "min">>, default |-> IntV(180)],
            [field |-> "bed_temperature", path |-> <<"bed", "recommended">>, default |-> IntV(50)],
            [field |-> "bed_temperature_layer_0", path |-> <<"bed", "min">>, default |-> IntV(40)],
            [field |-> "fan_speed", path |-> <<"fan", "recommended">>, default |-> IntV(100)]}
      [] slicer = "cura" /\ k = "printer" -> {
            [field |-> "machine_width", path |-> <<"build_volume", "x">>, default |-> IntV(200)],
            [field |-> "machine_depth", path |-> <<"build_volume", "y">>, default |-> IntV(200)],
            [field |-> "machine_height", path |-> <<"build_volume", "z">>, default |-> IntV(200)],
            [field |-> "heated_bed", path |-> <<"bed", "heated">>, default |-> BoolV(TRUE)]}
      [] slicer = "prusaslicer" /\ k = "filament" -> {
            [field |-> "filament_type", path |-> <<"material">>, default |-> s_PLA],
            [field |-> "temperature", path |-> <<"nozzle", "recommended">>, default |-> IntV(200)],
            [field |-> "bed_temperature", path |-> <<"bed", "recommended">>, default |-> IntV(50)],
            [field |-> "fan_speed", path |-> <<"fan", "recommended">>, default |-> IntV(100)]}
      [] slicer = "prusaslicer" /\ k = "printer" -> {
            [field |-> "vendor", path |-> <<"manufacturer">>, default |-> StrV(Unknown)],
            [field |-> "nozzle_diameter", path |-> <<"extruders", "0", "nozzle_diameter">>, default |-> FloatV(4000)],
            [field |-> "bed_shape", path |-> <<"build_volume", "shape">>,
             default |-> StrV(<<"r", "e", "c", "t", "a", "n", "g", "u", "l", "a", "r">>)],
            [field |-> "print_height", path |-> <<"build_volume", "z">>, default |-> IntV(200)]}
      [] slicer = "orca" /\ k = "filament" -> {
            [field |-> "filament_type", path |-> <<"material">>, default |-> s_PLA],
            [field |-> "nozzle_temperature", path |-> <<"nozzle", "recommended">>, default |-> IntV(200)],
            [field |-> "nozzle_temperature_initial_layer", path |-> <<"nozzle", "min">>, default |-> IntV(180)],
            [field |-> "bed_temperature", path |-> <<"bed", "recommended">>, default |-> IntV(50)],
            [field |-> "bed_temperature_initial_layer", path |-> <<"bed", "min">>, default |-> IntV(40)],
            [field |-> "fan_speed", path |-> <<"fan", "recommended">>, default |-> IntV(100)]}
      [] slicer = "orca" /\ k = "printer" -> {
            [field |-> "machine_manufacturer", path |-> <<"manufacturer">>, default |-> StrV(Unknown)],
            [field |-> "bed_x", path |-> <<"build_volume", "x">>, default |-> IntV(200)],
            [field |-> "bed_y", path |-> <<"build_volume", "y">>, default |-> IntV(200)],
            [field |-> "height", path |-> <<"build_volume", "z">>, default |-> IntV(200)],
            [field |-> "nozzle_diameter", path |-> <<"extruders", "0", "nozzle_diameter">>, default |-> FloatV(4000)]}
      [] slicer = "bambu" /\ k = "printer" -> {
            [field |-> "series", path |-> <<"model">>, default |-> StrV(Unknown)]}
      [] OTHER -> {}

\* C4: an export of a filament or printer profile whose extension block for the
\* dialect is absent or empty produces a document, and every field of it that is
\* copied from a standard field holds that field where the profile has it and the
\* exporter's literal default where it has not; a filament profile with
\* nozzle.recommended = 205 exported to Cura has print_temperature = 205 and
\* fan_speed_layer_0 = 0.
C4_SynthesisWithDefaults ==
    (pc \in {"exported", "export_raised"} /\ kind \in {"filament", "printer"} /\ ~Truthy(ExtensionBlock)) =>
        /\ pc = "exported"
        /\ \A e \in CopiedFields(dialect, kind) :
              ReadPath(exported, <<e.field>>) = ReadOr(profile, e.path, e.default)
        /\ (dialect = "cura" /\ kind = "filament"
                /\ ReadPath(profile, <<"nozzle", "recommended">>) = IntV(205)) =>
              /\ ReadPath(exported, <<"print_temperature">>) = IntV(205)
              /\ ReadPath(exported, <<"fan_speed_layer_0">>) = IntV(0)

-----------------------------------------------------------------------------
(* C5 *)

\* the entries present in the section whose raw value the entry's converter rejects
Malformed(k, sec) ==
    {i \in PresentEntries(k, sec) : converter(MAPPINGS_of(k)[i].conv, sec[MAPPINGS_of(k)[i].key]).exc # "none"}

\* the paths the derived rules of a kind's converter write after the mapping loop
DerivedPaths(k) ==
    CASE k = "printer" -> {<<"build_volume", "x">>, <<"build_volume", "y">>, <<"kinematics">>, <<"id">>,
                           <<"manufacturer">>, <<"model">>}
      [] k = "filament" -> {<<"material">>, <<"nozzle", "recommended">>, <<"nozzle", "min">>, <<"nozzle", "max">>,
                            <<"bed", "recommended">>, <<"bed", "min">>, <<"bed", "max">>,
                            <<"fan", "recommended">>, <<"brand">>, <<"name">>, <<"id">>}
      [] k = "process" -> {<<"layer_height", "default">>, <<"layer_height", "min">>, <<"layer_height", "max">>,
                           <<"infill", "density_default">>, <<"speed", "outer_wall">>, <<"speed", "infill">>,
                           <<"speed", "travel">>, <<"retraction", "distance">>, <<"retraction", "speed">>,
                           <<"name">>, <<"id">>, <<"intent">>}

\* the present entries whose path nothing else writes: no derived rule and no
\* other present entry
SoleWriters(k, sec) ==
    {i \in PresentEntries(k, sec) :
        /\ MAPPINGS_of(k)[i].path \notin DerivedPaths(k)
        /\ \A j \in PresentEntries(k, sec) : j # i => MAPPINGS_of(k)[j].path # MAPPINGS_of(k)[i].path}

\* C5: the import of a section in which exactly one mapped key has a raw value
\* its converter rejects returns a profile; of the keys that alone write their
\* path, the malformed one leaves the skeleton's default there and every other one
\* its converted value.
C5_OneMalformedField ==
    (pc \in {"imported", "import_raised"} /\ Cardinality(Malformed(kind, section)) = 1) =>
        /\ pc = "imported"
        /\ \A i \in SoleWriters(kind, section) :
              LET e == MAPPINGS_of(kind)[i]
              IN  IF i \in Malformed(kind, section)
                  THEN PyEq(ReadPath(profile, e.path), ReadPath(skeleton_of(kind), e.path))
                  ELSE PyEq(ReadPath(profile, e.path), converter(e.conv, section[e.key]).val)

-----------------------------------------------------------------------------
(* C6 *)

\* the pieces of s between the occurrences of the character c
RECURSIVE SplitAt(_, _)
SplitAt(s, c) ==
    IF \A i \in 1..Len(s) : s[i] # c THEN <<s>>
    ELSE
        LET j == CHOOSE i \in 1..Len(s) : s[i] = c /\ \A h \in 1..(i - 1) : s[h] # c
        IN  <<SubSeq(s, 1, j - 1)>> \o SplitAt(SubSeq(s, j + 1, Len(s)), c)

\* the corner points of a bed_shape "XxY,XxY,...": one point per piece between
\* commas, its x before the "x" and its y after it
CornerPoints(bed_shape) ==
    LET points == SplitAt(bed_shape, ",")
    IN  [i \in 1..Len(points) |->
            [x |-> py_float(SplitAt(points[i], "x")[1]).val,
             y |-> py_float(SplitAt(points[i], "x")[2]).val]]

\* C6: the import of the printer section {printer_model: X1, printer_make: Acme,
\* nozzle_diameter: 0.4, bed_shape: 0x0,250x0,250x250,0x250} yields id "Acme/X1",
\* extruders[0].nozzle_diameter 0.4 and a build volume of 250 by 250; and every
\* import of a printer section yields, where the section has printer_model and
\* printer_make, the id make/model with spaces replaced by hyphens, and, where it
\* has bed_shape, build_volume.x and build_volume.y equal to the extents of the x
\* and of the y coordinates of the corner points.
C6_PrinterImport ==
    (pc \in {"imported", "import_raised"} /\ kind = "printer") =>
        /\ pc = "imported"
        /\ section = ScenarioPrinter =>
              /\ ReadPath(profile, <<"id">>) = StrV(<<"A", "c", "m", "e", "/", "X", "1">>)
              /\ PyEq(ReadPath(profile, <<"extruders", "0", "nozzle_diameter">>), FloatV(4000))
              /\ PyEq(ReadPath(profile, <<"build_volume", "x">>), IntV(250))
              /\ PyEq(ReadPath(profile, <<"build_volume", "y">>), IntV(250))
        /\ {"printer_model", "printer_make"} \subseteq DOMAIN section =>
              ReadPath(profile, <<"id">>) =
                  StrV(str_replace(section["printer_make"] \o <<"/">> \o section["printer_model"], " ", <<"-">>))
        /\ "bed_shape" \in DOMAIN section =>
              LET corners == CornerPoints(section["bed_shape"])
              IN  /\ PyEq(ReadPath(profile, <<"build_volume", "x">>),
                          Extent([i \in 1..Len(corners) |-> corners[i].x]))
                  /\ PyEq(ReadPath(profile, <<"build_volume", "y">>),
                          Extent([i \in 1..Len(corners) |-> corners[i].y]))

-----------------------------------------------------------------------------
(* C7 *)

\* the options of a section that are no key of the kind's table, as raw strings
Unmapped(k, sec) == DictV([o \in DOMAIN sec \ MappedKeys(k) |-> StrV(sec[o])])

\* C7: after an import, of a source section or of an exported document, the
\* profile's x_prusaslicer holds exactly the options of the section that are no
\* key of the kind's mapping table, each with its raw string.
C7_UnmappedKeysPreserved ==
    /\ pc \in {"imported", "exported", "export_raised", "reimported", "reimport_raised"} =>
          ReadPath(profile, <<"x_prusaslicer">>) = Unmapped(kind, section)
    /\ pc = "reimported" =>
          ReadPath(reimported, <<"x_prusaslicer">>) = Unmapped(kind, read_dict(exported))

\* C7 happens: a section with a mapped and an unmapped option was imported and
\* its profile carries the unmapped one alone
C7_Witness ==
    /\ pc = "imported"
    /\ DOMAIN section \cap MappedKeys(kind) # {}
    /\ DOMAIN section \ MappedKeys(kind) # {}
    /\ DOMAIN ReadPath(profile, <<"x_prusaslicer">>).v = DOMAIN section \ MappedKeys(kind)

-----------------------------------------------------------------------------
(* C8 *)

\* every non-final segment of the path leads to a mapping or a list of the root
ResolvesWithin(root, keys) ==
    \A n \in 1..(Len(keys) - 1) : ReadPath(root, SubSeq(keys, 1, n)).t \in {"dict", "list"}

\* C8: every entry of a kind's mapping table has a path whose non-final segments
\* name containers of the kind's skeleton, and an imported profile has no
\* top-level section the skeleton has not.
C8_TablesInsideSkeleton ==
    pc = "imported" =>
        /\ \A i \in 1..Len(MAPPINGS_of(kind)) :
              ResolvesWithin(skeleton_of(kind), MAPPINGS_of(kind)[i].path)
        /\ DOMAIN profile.v \subseteq DOMAIN skeleton_of(kind).v

-----------------------------------------------------------------------------
(* C9, C10 *)

\* every value that exists on the path is what its segment addresses, a list for
\* a digit segment and a mapping for any other, up to the first absent one
RECURSIVE WellShaped(_, _)
WellShaped(node, keys) ==
    LET key == Head(keys)
    IN  IF IsDigit(key) THEN
            /\ node.t = "list"
            /\ (Len(keys) > 1 /\ DigitVal(key) < Len(node.v)) =>
                  WellShaped(node.v[DigitVal(key) + 1], Tail(keys))
        ELSE
            /\ node.t = "dict"
            /\ (Len(keys) > 1 /\ key \in DOMAIN node.v) =>
                  WellShaped(node.v[key], Tail(keys))

\* C9: after set_nested on a path whose existing intermediate values are the
\* containers its segments address, no error was raised and the value is read at
\* the path from the root, with the lists that digit segments address created or
\* padded inside the container.
C9_PathWritePostcondition ==
    (pc = "path_done" /\ WellShaped(d, path)) =>
        /\ exc = "none"
        /\ ReadPath(after, path) = value

\* C10: after set_nested on a path on which an existing value is not what its
\* segment addresses, an error was raised or the value is read at the path from
\* the root, and every path of the container that neither leads to nor lies
\* under the written one reads what it read before.
C10_ConflictKeepsData ==
    (pc = "path_done" /\ ~WellShaped(d, path)) =>
        /\ exc # "none" \/ ReadPath(after, path) = value
        /\ \A q \in Paths :
              (ReadPath(d, q) # NoValue /\ ~IsPrefix(q, path) /\ ~IsPrefix(path, q)) =>
                  ReadPath(after, q) = ReadPath(d, q)

-----------------------------------------------------------------------------
(* C11, C12 *)

\* C11: the profile an import returns, of a source section or of an exported
\* document, has op3d_schema equal to the kind that was asked for, and carries
\* every top-level section of that kind's skeleton: the kind alone selected the
\* skeleton and the table, and nothing after the skeleton changed the field.
C11_KindIsFixed ==
    /\ pc \in {"imported", "exported", "export_raised", "reimported", "reimport_raised"} =>
          /\ ReadPath(profile, <<"op3d_schema">>) = ReadPath(skeleton_of(kind), <<"op3d_schema">>)
          /\ DOMAIN skeleton_of(kind).v \subseteq DOMAIN profile.v
    /\ pc = "reimported" =>
          /\ ReadPath(reimported, <<"op3d_schema">>) = ReadPath(skeleton_of(kind), <<"op3d_schema">>)
          /\ DOMAIN skeleton_of(kind).v \subseteq DOMAIN reimported.v

\* C11 happens: a process section with a mapped and an unmapped option was
\* imported and the profile says "process"
C11_Witness ==
    /\ pc = "imported"
    /\ kind = "process"
    /\ DOMAIN section \cap MappedKeys(kind) # {}
    /\ DOMAIN section \ MappedKeys(kind) # {}
    /\ ReadPath(profile, <<"op3d_schema">>) = StrV(<<"p", "r", "o", "c", "e", "s", "s">>)

\* C12: in the profile an import returns the derived fields agree with the final
\* primary values and replace what the mapping loop wrote: a filament section
\* with temperature T gives nozzle.recommended = T, nozzle.min = max(150, T - 20)
\* and nozzle.max = min(300, T + 20); a process profile's intent is the tier of
\* its layer_height.default; and speed.outer_wall is perimeter_speed also when
\* external_perimeter_speed, a later table entry for the same path, is present.
C12_DerivedRulesWin ==
    pc = "imported" =>
        /\ (kind = "filament" /\ "temperature" \in DOMAIN section) =>
              LET T == py_float(section["temperature"]).val
              IN  /\ PyEq(ReadPath(profile, <<"nozzle", "recommended">>), T)
                  /\ PyEq(ReadPath(profile, <<"nozzle", "min">>), py_max(IntV(150), FloatAdd(T, -20 * Scale)))
                  /\ PyEq(ReadPath(profile, <<"nozzle", "max">>), py_min(IntV(300), FloatAdd(T, 20 * Scale)))
        /\ kind = "process" =>
              ReadPath(profile, <<"intent">>) =
                  StrV(intent_of(ReadPath(profile, <<"layer_height", "default">>)))
        /\ (kind = "process" /\ "perimeter_speed" \in DOMAIN section) =>
              PyEq(ReadPath(profile, <<"speed", "outer_wall">>), py_float(section["perimeter_speed"]).val)

\* C12 happens: a process section with perimeter_speed 45 and
\* external_perimeter_speed 25 was imported and speed.outer_wall is 45
C12_Witness ==
    /\ pc = "imported"
    /\ kind = "process"
    /\ {"perimeter_speed", "external_perimeter_speed"} \subseteq DOMAIN section
    /\ section["perimeter_speed"] # section["external_perimeter_speed"]
    /\ PyEq(ReadPath(profile, <<"speed", "outer_wall">>), IntV(45))

-----------------------------------------------------------------------------
(* The comparison of two profiles, tools/compare_profiles.py *)

\* the variables of the import, export and path runs, where a run has none
IdleImport ==
    /\ kind = "none"
    /\ section = NoValue
    /\ profile = NoValue
    /\ exc = "none"
    /\ dialect = "none"
    /\ exported = NoValue
    /\ reimported = NoValue

IdlePath ==
    /\ d = NoValue
    /\ path = << >>
    /\ value = NoValue
    /\ after = NoValue

\* JSON null
NoneV == [t |-> "none", v |-> 0]

\* flatten_dict with lists expanded too: the first element of a list under the
\* key of the list joined with the index 0
RECURSIVE flatten_items_into_lists(_, _, _, _)
flatten_items_into_lists(dv, parent_key, order, i) ==
    IF i > Len(order) THEN << >>
    ELSE IF order[i] \notin DOMAIN dv THEN flatten_items_into_lists(dv, parent_key, order, i + 1)
    ELSE
        LET new_key == IF parent_key # "" THEN parent_key \o "." \o order[i] ELSE order[i]
            v == dv[order[i]]
        IN  (IF v.t = "dict" THEN flatten_items_into_lists(v.v, new_key, order, 1)
             ELSE IF v.t = "list" /\ Len(v.v) > 0 THEN
                 IF v.v[1].t = "dict" THEN flatten_items_into_lists(v.v[1].v, new_key \o "." \o "0", order, 1)
                 ELSE <<[key |-> new_key \o "." \o "0", value |-> v.v[1]]>>
             ELSE <<[key |-> new_key, value |-> v]>>)
                \o flatten_items_into_lists(dv, parent_key, order, i + 1)

\* the items list of flatten_dict(d, parent_key): the keys of d from the i-th of
\* order on, in that order (the order of d.items()), a mapping replaced by the
\* items of its own flattening under the joined key
RECURSIVE flatten_items(_, _, _, _)
flatten_items(dv, parent_key, order, i) ==
    IF i > Len(order) THEN << >>
    ELSE IF order[i] \notin DOMAIN dv THEN flatten_items(dv, parent_key, order, i + 1)
    ELSE
        LET new_key == IF parent_key # "" THEN parent_key \o "." \o order[i] ELSE order[i]
            v == dv[order[i]]
        IN  (IF v.t = "dict" THEN flatten_items(v.v, new_key, order, 1)
             ELSE <<[key |-> new_key, value |-> v]>>)
                \o flatten_items(dv, parent_key, order, i + 1)

\* flatten_dict(d): dict(items), in which the last item of a key wins
flatten_dict(node, order) ==
    LET items == flatten_items(node.v, "", order, 1)
    IN  [k \in {items[i].key : i \in 1..Len(items)} |->
            items[CHOOSE i \in 1..Len(items) :
                    items[i].key = k /\ \A j \in (i + 1)..Len(items) : items[j].key # k].value]

compare_values(v1, v2) ==
    IF v1 = NoneV /\ v2 = NoneV THEN TRUE
    ELSE IF v1 = NoneV \/ v2 = NoneV THEN FALSE
    ELSE PyEq(v1, v2)

\* the differences list of compare_profiles, as the set of its entries (the
\* code appends them in the sorted order of their keys, one per key at most)
diff_entries(flat1, flat2) ==
    {[key |-> k, profile1 |-> NoneV, profile2 |-> flat2[k], status |-> "only_in_profile2"] :
        k \in DOMAIN flat2 \ DOMAIN flat1}
    \cup {[key |-> k, profile1 |-> flat1[k], profile2 |-> NoneV, status |-> "only_in_profile1"] :
        k \in DOMAIN flat1 \ DOMAIN flat2}
    \cup {[key |-> k, profile1 |-> flat1[k], profile2 |-> flat2[k], status |-> "different"] :
        k \in {c \in DOMAIN flat1 \cap DOMAIN flat2 : ~compare_values(flat1[c], flat2[c])}}

\* the common list without --show-common: nothing is collected
no_common_entries(flat1, flat2, common_wanted) == {}

\* the common list of compare_profiles, as the set of its entries
common_entries(flat1, flat2, common_wanted) ==
    IF common_wanted
    THEN {[key |-> k, value |-> flat1[k]] :
            k \in {c \in DOMAIN flat1 \cap DOMAIN flat2 : compare_values(flat1[c], flat2[c])}}
    ELSE {}

s_unknown == StrV(<<"u", "n", "k", "n", "o", "w", "n">>)

compare_profiles(p1, p2, common_wanted, order) ==
    LET flat1 == flatten_dict(p1, order)
        flat2 == flatten_dict(p2, order)
        all_keys == DOMAIN flat1 \cup DOMAIN flat2
        differences == diff_entries(flat1, flat2)
        common == common_entries(flat1, flat2, common_wanted)
    IN  [profile1_schema |-> dict_get(p1, "op3d_schema", s_unknown),
         profile2_schema |-> dict_get(p2, "op3d_schema", s_unknown),
         profile1_id |-> dict_get(p1, "id", s_unknown),
         profile2_id |-> dict_get(p2, "id", s_unknown),
         differences |-> differences,
         common |-> common,
         stats |-> [total_keys |-> Cardinality(all_keys),
                    differences |-> Cardinality(differences),
                    common |-> Cardinality(common),
                    only_in_profile1 |-> Cardinality({e \in differences : e.status = "only_in_profile1"}),
                    only_in_profile2 |-> Cardinality({e \in differences : e.status = "only_in_profile2"}),
                    modified |-> Cardinality({e \in differences : e.status = "different"})]]

\* the profiles compared: a nested section a with a scalar k or a list l, a
\* top-level key "a.k" that contains the separator, a top-level list e of
\* mappings, and a scalar n; numbers that are equal across int, float and bool
DiffProfiles ==
    {DictV(a @@ ak @@ e @@ n) :
        a \in Opt("a", {EmptyDict, DictV([k |-> IntV(50)]), DictV([k |-> FloatV(50 * Scale)]),
                        DictV([k |-> IntV(1)]),
                        DictV([l |-> ListV(<<DictV([k |-> IntV(1)])>>)]),
                        DictV([l |-> ListV(<<DictV([k |-> IntV(2)])>>)])}),
        ak \in Opt("a.k", {IntV(1)}),
        e \in Opt("e", {ListV(<<DictV([k |-> IntV(1)])>>), ListV(<<DictV([k |-> IntV(2)])>>)}),
        n \in {"n" :> x : x \in {BoolV(TRUE), IntV(1), NoneV}}}

\* the orders in which a JSON file may list the keys
KeyOrders == {<<"a", "a.k", "e", "k", "l", "n">>, <<"a.k", "n", "a", "l", "k", "e">>}

InitDiff ==
    /\ pc = "diff_start"
    /\ profile1 \in DiffProfiles
    /\ profile2 \in DiffProfiles
    /\ key_order \in KeyOrders
    /\ show_common \in BOOLEAN
    /\ result = NoValue
    /\ IdleImport
    /\ IdlePath
    /\ IdleBatch

\* result = compare_profiles(profile1, profile2, args.show_common)
Compare ==
    /\ pc = "diff_start"
    /\ result' = compare_profiles(profile1, profile2, show_common, key_order)
    /\ pc' = "diff_done"
    /\ UNCHANGED <<kind, section, profile, exc, dialect, exported, reimported, d, path, value, after>>
    /\ UNCHANGED <<profile1, profile2, key_order, show_common, batchVars>>

SpecDiff == InitDiff /\ [][Compare]_vars

-----------------------------------------------------------------------------
(* The JSON and YAML mirror of a directory, tools/format_convert.py *)

MaxFiles == 3

s_process == StrV(<<"p", "r", "o", "c", "e", "s", "s">>)

SCHEMA_TYPES == {s_filament, s_printer, s_process}

\* the text of a file: the syntax it is written in and the document that the
\* parser of that syntax reads from it (json.dump and json.load carry str, int,
\* float, bool, null, list and dict over one to one)
JsonText(doc) == [syntax |-> "json", doc |-> doc]
YamlText(doc) == [syntax |-> "yaml", doc |-> doc]
JunkText == [syntax |-> "junk", doc |-> NoValue]

\* the type that the resolver of the YAML loader gives a plain scalar
yaml_resolve(text) ==
    IF text \in {<<"t", "r", "u", "e">>, <<"f", "a", "l", "s", "e">>} THEN "bool"
    ELSE IF text \in {<<"n", "u", "l", "l">>, <<"~">>, << >>} THEN "null"
    ELSE IF py_int(text).exc = "none" THEN "int"
    ELSE IF str_contains(text, <<".">>) /\ py_float(text).exc = "none" THEN "float"
    ELSE "str"

\* the body of a single-quoted scalar as yaml.safe_dump with allow_unicode
\* writes it, from the i-th character on ("NEL" stands for the one character
\* U+0085): a run of line breaks is written as it is, with one more line feed
\* in front if it begins with a line feed
RECURSIVE write_single_quoted(_, _)
write_single_quoted(text, i) ==
    IF i > Len(text) THEN << >>
    ELSE IF text[i] \notin {"\n", "NEL"} THEN <<text[i]>> \o write_single_quoted(text, i + 1)
    ELSE LET last == CHOOSE j \in i..Len(text) :
                        /\ \A k \in i..j : text[k] \in {"\n", "NEL"}
                        /\ j < Len(text) => text[j + 1] \notin {"\n", "NEL"}
         IN  (IF text[i] = "\n" THEN <<"\n">> ELSE << >>)
                 \o SubSeq(text, i, last) \o write_single_quoted(text, last + 1)

\* the string that yaml.safe_load reads from the body of a quoted scalar: a
\* single line break is folded into a blank, the first of several is dropped
\* and the others are read as line feeds
RECURSIVE scan_flow_scalar(_, _)
scan_flow_scalar(text, i) ==
    IF i > Len(text) THEN << >>
    ELSE IF text[i] \notin {"\n", "NEL"} THEN <<text[i]>> \o scan_flow_scalar(text, i + 1)
    ELSE LET last == CHOOSE j \in i..Len(text) :
                        /\ \A k \in i..j : text[k] \in {"\n", "NEL"}
                        /\ j < Len(text) => text[j + 1] \notin {"\n", "NEL"}
         IN  (IF last = i THEN <<" ">> ELSE [k \in 1..(last - i) |-> "\n"])
                 \o scan_flow_scalar(text, last + 1)

\* the scalar that yaml.safe_dump writes for a value that is no container: a
\* string is quoted where it has line breaks or would be read as something else
represent_scalar(x) ==
    CASE x.t = "str" ->
            IF \E i \in 1..Len(x.v) : x.v[i] \in {"\n", "NEL"}
            THEN [quoted |-> TRUE, text |-> write_single_quoted(x.v, 1)]
            ELSE [quoted |-> yaml_resolve(x.v) # "str", text |-> x.v]
      [] x.t = "int" -> [quoted |-> FALSE, text |-> int_str(x.v)]
      [] x.t = "float" -> [quoted |-> FALSE, text |-> float_str(x.v)]
      [] x.t = "bool" -> [quoted |-> FALSE,
                          text |-> IF x.v THEN <<"t", "r", "u", "e">> ELSE <<"f", "a", "l", "s", "e">>]
      [] OTHER -> [quoted |-> FALSE, text |-> <<"n", "u", "l", "l">>]

\* the value that yaml.safe_load makes of a scalar
construct_scalar(node) ==
    IF node.quoted THEN StrV(scan_flow_scalar(node.text, 1))
    ELSE CASE yaml_resolve(node.text) = "bool" -> BoolV(node.text = <<"t", "r", "u", "e">>)
           [] yaml_resolve(node.text) = "null" -> NoneV
           [] yaml_resolve(node.text) = "int" -> py_int(node.text).val
           [] yaml_resolve(node.text) = "float" -> py_float(node.text).val
           [] OTHER -> StrV(node.text)

\* the document that yaml.safe_load reads from what yaml.safe_dump writes for a
\* document: mappings and sequences item by item (the keys of the model are
\* plain words), every other value through its scalar
RECURSIVE yaml_reads_back(_)
yaml_reads_back(x) ==
    IF x.t = "dict" THEN DictV([k \in DOMAIN x.v |-> yaml_reads_back(x.v[k])])
    ELSE IF x.t = "list" THEN ListV([i \in DOMAIN x.v |-> yaml_reads_back(x.v[i])])
    ELSE construct_scalar(represent_scalar(x))

\* json.load for the suffix .json and yaml.safe_load for any other: JSON text is
\* YAML text too, YAML text is not JSON text
parse_by_suffix(files, item) ==
    IF item.suffix = ".json"
    THEN IF files[item].syntax = "json" THEN Ok(files[item].doc) ELSE Raise("JSONDecodeError", NoValue)
    ELSE IF files[item].syntax \in {"json", "yaml"} THEN Ok(files[item].doc)
         ELSE Raise("YAMLError", NoValue)

\* is_profile_file without its handler: an exception of open or of the parser
\* reaches the caller
is_profile_file_unguarded(files, item) ==
    IF item.suffix \notin {".json", ".yaml", ".yml"} THEN Ok(FALSE)
    ELSE LET r == parse_by_suffix(files, item)
         IN  IF r.exc # "none" THEN Raise(r.exc, FALSE)
             ELSE Ok(r.val.t = "dict" /\ dict_get(r.val, "op3d_schema", NoneV) \in SCHEMA_TYPES)

\* is_profile_file: the result, and the exception that leaves it (none: every
\* exception of the try block is answered with False)
is_profile_file(files, item) ==
    IF item.suffix \notin {".json", ".yaml", ".yml"} THEN Ok(FALSE)
    ELSE LET r == parse_by_suffix(files, item)
         IN  IF r.exc # "none" THEN Ok(FALSE)
             ELSE Ok(r.val.t = "dict" /\ dict_get(r.val, "op3d_schema", NoneV) \in SCHEMA_TYPES)

\* load_profile of format_convert.py: a file that does not parse ends the process
load_profile(files, item) ==
    IF item \notin DOMAIN files THEN Raise("SystemExit", NoValue)
    ELSE LET r == parse_by_suffix(files, item)
         IN  IF r.exc # "none" THEN Raise("SystemExit", NoValue) ELSE r

\* an output path that keeps the stem alone: every output directly under the
\* output root
output_path_flat(a, item) ==
    [root |-> IF a.output THEN "out" ELSE "in",
     dir |-> "",
     stem |-> item.stem,
     suffix |-> IF a.conversion = "json2yaml" THEN ".yaml" ELSE ".json"]

\* output_path of json_to_yaml and yaml_to_json: the stem of the input with the
\* suffix of the target, beside the input or under the mirrored directory of
\* the output root
output_path(a, item) ==
    [root |-> IF a.output THEN "out" ELSE "in",
     dir |-> item.dir,
     stem |-> item.stem,
     suffix |-> IF a.conversion = "json2yaml" THEN ".yaml" ELSE ".json"]

\* save_yaml and save_json: the open for writing fails on a path that is a directory
save(a, files, dst, prof) ==
    IF dst \in a.blocked THEN Raise("IsADirectoryError", files)
    ELSE Ok(Put(files, dst, IF a.conversion = "json2yaml"
                            THEN YamlText(yaml_reads_back(prof))
                            ELSE JsonText(prof)))

\* json_to_yaml or yaml_to_json, whichever the direction selects
conversion_func(a, files, item) ==
    LET r == load_profile(files, item)
    IN  IF r.exc # "none" THEN Raise(r.exc, files)
        ELSE save(a, files, output_path(a, item), r.val)

\* the texts of the files of a directory: two profiles, a mapping without a
\* kind, a mapping of a kind that is none of the three, a list, and text that
\* does not parse
Texts ==
    {JsonText(DictV([op3d_schema |-> s_filament, id |-> StrV(<<"A">>)])),
     YamlText(DictV([op3d_schema |-> s_process, id |-> StrV(<<"B">>)])),
     JsonText(DictV([id |-> StrV(<<"C">>)])),
     JsonText(DictV([op3d_schema |-> StrV(<<"w", "i", "d", "g", "e", "t">>)])),
     YamlText(ListV(<<s_filament>>)),
     JunkText}

InPaths ==
    {[root |-> "in", dir |-> "", stem |-> "p", suffix |-> suffix] :
        suffix \in {".json", ".yml", ".yaml", ".txt"}}
    \cup {[root |-> "in", dir |-> "sub", stem |-> "p", suffix |-> suffix] : suffix \in {".json", ".yml"}}

\* the directories given as input: at most MaxFiles files
Directories ==
    UNION {[names -> Texts] : names \in {n \in SUBSET InPaths : Cardinality(n) <= MaxFiles}}

\* the command lines: the direction, whether --output is given, and the output
\* paths that exist as directories
MirrorArgs ==
    {[conversion |-> c, output |-> o, blocked |-> b] :
        c \in {"json2yaml", "yaml2json"},
        o \in BOOLEAN,
        b \in {{}, {[root |-> "out", dir |-> "", stem |-> "p", suffix |-> ".yaml"],
                    [root |-> "out", dir |-> "", stem |-> "p", suffix |-> ".json"]}}}

InitMirror ==
    /\ pc = "mirror_loop"
    /\ args \in MirrorArgs
    /\ fs0 \in Directories
    /\ fs = fs0
    /\ todo = DOMAIN fs0
    /\ emitted = << >>
    /\ diagnostics = {}
    /\ status = "running"
    /\ IdleImport
    /\ IdlePath
    /\ IdleDiff

\* the body of the loop of process_path for one item of the listing: the files
\* after it and whether the item was converted
process_item(a, files, item) ==
    LET recognized == is_profile_file(files, item)
    IN  IF recognized.exc # "none" THEN [exc |-> recognized.exc, val |-> files, converted |-> FALSE]
        ELSE IF ~recognized.val THEN [exc |-> "none", val |-> files, converted |-> FALSE]
        ELSE LET r == conversion_func(a, files, item)
             IN  [exc |-> r.exc, val |-> r.val, converted |-> r.exc = "none"]

\* one round of the loop of process_path over path.rglob("*"): the next item of
\* the listing, the items of the directory itself before those of a directory
\* below it and in any order within a directory; an exception of the
\* conversion leaves the loop and the process with a traceback
MirrorStep ==
    /\ pc = "mirror_loop"
    /\ \E item \in todo :
        LET r == process_item(args, fs, item)
        IN  /\ item.dir # "" => \A other \in todo : other.dir # ""
            /\ fs' = r.val
            /\ IF r.exc = "none"
               THEN /\ todo' = todo \ {item}
                    /\ emitted' = IF r.converted
                                  THEN Append(emitted, [src |-> item, dst |-> output_path(args, item)])
                                  ELSE emitted
                    /\ UNCHANGED <<pc, diagnostics, status>>
               ELSE /\ pc' = "mirror_done"
                    /\ status' = r.exc
                    /\ diagnostics' = diagnostics \cup {[item |-> item, message |-> "Traceback"]}
                    /\ UNCHANGED <<emitted, todo>>
    /\ UNCHANGED <<args, fs0>>
    /\ UNCHANGED <<kind, section, profile, exc, dialect, exported, reimported, d, path, value, after>>
    /\ UNCHANGED diffVars

\* return count, when the listing is exhausted
MirrorReturn ==
    /\ pc = "mirror_loop"
    /\ todo = {}
    /\ pc' = "mirror_done"
    /\ status' = "returned"
    /\ UNCHANGED <<args, fs0, fs, todo, emitted, diagnostics>>
    /\ UNCHANGED <<kind, section, profile, exc, dialect, exported, reimported, d, path, value, after>>
    /\ UNCHANGED diffVars

NextMirror == MirrorStep \/ MirrorReturn

SpecMirror == InitMirror /\ [][NextMirror]_vars

-----------------------------------------------------------------------------
(* The export of a list of profiles, main of tools/convert_profile.py *)

MaxBatch == 2

\* load_profile of convert_profile.py: json.load of the path; a missing file
\* and invalid JSON print one [ERR] line and end the process
load_profile_json(files, name) ==
    IF name \notin DOMAIN files THEN Raise("SystemExit", "[ERR] File not found")
    ELSE IF files[name].syntax # "json" THEN Raise("SystemExit", "[ERR] Invalid JSON")
    ELSE Ok(files[name].doc)

\* the profiles on disk: a filament, a printer without extruders, and a document
\* of a kind that is none of the three
BatchDocs ==
    {DictV([op3d_schema |-> s_filament, material |-> s_PLA]),
     DictV([op3d_schema |-> s_printer, extruders |-> ListV(<< >>)]),
     DictV([op3d_schema |-> StrV(<<"w", "i", "d", "g", "e", "t">>)])}

BatchNames == {"a", "b", "c"}

BatchFiles ==
    UNION {[names -> {JunkText} \cup {JsonText(doc) : doc \in BatchDocs}] : names \in SUBSET BatchNames}

BatchArgs ==
    {[slicer |-> slicer, profiles |-> profiles, output |-> o] :
        slicer \in Dialects,
        profiles \in UNION {[1..n -> BatchNames] : n \in 1..MaxBatch},
        o \in BOOLEAN}

InitBatch ==
    /\ pc = "batch_loop"
    /\ args \in BatchArgs
    /\ fs0 \in BatchFiles
    /\ fs = fs0
    /\ todo = args.profiles
    /\ emitted = << >>
    /\ diagnostics = {}
    /\ status = "running"
    /\ IdleImport
    /\ IdlePath
    /\ IdleDiff

\* one round of the loop of main over args.profiles (todo holds the paths still
\* to come): load, convert, then save under the output directory or print; the
\* exit of load_profile and an exception of the converter end the process
BatchStep ==
    /\ pc = "batch_loop"
    /\ todo # << >>
    /\ LET index == Len(args.profiles) - Len(todo) + 1
           loaded == load_profile_json(fs, Head(todo))
           r == IF loaded.exc # "none" THEN loaded ELSE converter_for(args.slicer, loaded.val)
       IN  IF r.exc = "none"
           THEN /\ emitted' = Append(emitted,
                                [index |-> index, src |-> Head(todo), converted |-> r.val,
                                 dst |-> IF args.output THEN Head(todo) \o "_" \o args.slicer \o ".json"
                                         ELSE "stdout"])
                /\ fs' = IF args.output
                         THEN Put(fs, Head(todo) \o "_" \o args.slicer \o ".json", JsonText(r.val))
                         ELSE fs
                /\ todo' = Tail(todo)
                /\ UNCHANGED <<pc, diagnostics, status>>
           ELSE /\ pc' = "batch_done"
                /\ status' = r.exc
                /\ diagnostics' = diagnostics \cup
                        {[index |-> index, item |-> Head(todo),
                          message |-> IF loaded.exc # "none" THEN loaded.val ELSE "Traceback"]}
                /\ UNCHANGED <<fs, emitted, todo>>
    /\ UNCHANGED <<args, fs0>>
    /\ UNCHANGED <<kind, section, profile, exc, dialect, exported, reimported, d, path, value, after>>
    /\ UNCHANGED diffVars

\* the end of main, when the list is exhausted
BatchReturn ==
    /\ pc = "batch_loop"
    /\ todo = << >>
    /\ pc' = "batch_done"
    /\ status' = "returned"
    /\ UNCHANGED <<args, fs0, fs, todo, emitted, diagnostics>>
    /\ UNCHANGED <<kind, section, profile, exc, dialect, exported, reimported, d, path, value, after>>
    /\ UNCHANGED diffVars

NextBatch == BatchStep \/ BatchReturn

SpecBatch == InitBatch /\ [][NextBatch]_vars

-----------------------------------------------------------------------------
(* The import of a file, main of tools/import_prusaslicer.py *)

\* the section of the file that the converter of a kind reads
section_name(k) == IF k = "process" THEN "print" ELSE k

detect_profile_type(config) ==
    SelectSeq(<<"printer", "filament", "process">>, LAMBDA k : section_name(k) \in DOMAIN config)

\* convert_profile on a parsed file: config.options(section) of the converter
\* raises NoSectionError when the file has no section of the kind
convert_config(config, profile_type) ==
    IF profile_type \in Kinds /\ section_name(profile_type) \notin DOMAIN config
    THEN Raise("NoSectionError", NoValue)
    ELSE convert_profile(IF profile_type \in Kinds THEN config[section_name(profile_type)] ELSE << >>,
                         profile_type)

\* the sections with at most the one option that the kind's derived values are
\* computed from
SmallSections(k) ==
    LET pool == Pool(k)
        small == DOMAIN pool \cap {"nozzle_diameter", "temperature", "layer_height"}
    IN  UNION {{sec \in [opts -> UNION {pool[o] : o \in small}] : \A o \in opts : sec[o] \in pool[o]} :
                  opts \in {os \in SUBSET small : Cardinality(os) <= MaxKeys}}

\* the parsed files: any of the three sections
Configs ==
    UNION {{config \in [{section_name(k) : k \in ks} -> UNION {SmallSections(k) : k \in ks}] :
                \A k \in ks : config[section_name(k)] \in SmallSections(k)} :
            ks \in SUBSET Kinds}

MainArgs ==
    {[type |-> t, all |-> a, output |-> o] :
        t \in Kinds \cup {"auto"}, a \in BOOLEAN, o \in BOOLEAN}

\* the command line and the file: fs0 holds the sections of the file, or no
\* value where the file does not exist
InitMain ==
    /\ pc = "main_start"
    /\ args \in MainArgs
    /\ fs0 \in Configs \cup {NoValue}
    /\ fs = << >>
    /\ todo = << >>
    /\ emitted = << >>
    /\ diagnostics = {}
    /\ status = "running"
    /\ IdleImport
    /\ IdlePath
    /\ IdleDiff

\* main up to the loop: load_ini_file, then the list of kinds to import
MainDetect ==
    /\ pc = "main_start"
    /\ IF fs0 = NoValue
       THEN /\ pc' = "main_done"
            /\ status' = "exit 1"
            /\ diagnostics' = {[item |-> "input", message |-> "[ERR] File not found"]}
            /\ todo' = todo
       ELSE LET detected == IF args.type = "auto" THEN detect_profile_type(fs0) ELSE <<args.type>>
            IN  IF detected = << >>
                THEN /\ pc' = "main_done"
                     /\ status' = "exit 1"
                     /\ diagnostics' = {[item |-> "input", message |-> "[ERR] No recognizable profile sections"]}
                     /\ todo' = todo
                ELSE /\ pc' = "main_loop"
                     /\ todo' = IF ~args.all /\ Len(detected) > 1 THEN <<detected[1]>> ELSE detected
                     /\ UNCHANGED <<status, diagnostics>>
    /\ UNCHANGED <<args, fs0, fs, emitted>>
    /\ UNCHANGED <<kind, section, profile, exc, dialect, exported, reimported, d, path, value, after>>
    /\ UNCHANGED diffVars

\* one round of the loop of main over the detected kinds: an exception of the
\* conversion is reported and the loop continues
MainStep ==
    /\ pc = "main_loop"
    /\ todo # << >>
    /\ LET profile_type == Head(todo)
           r == convert_config(fs0, profile_type)
       IN  IF r.exc # "none"
           THEN /\ diagnostics' = diagnostics \cup
                        {[item |-> profile_type, message |-> "[ERR] Failed to convert"]}
                /\ UNCHANGED <<fs, emitted>>
           ELSE /\ emitted' = Append(emitted,
                                [src |-> profile_type, converted |-> r.val,
                                 dst |-> IF args.output THEN profile_type \o "_input.json" ELSE "stdout"])
                /\ fs' = IF args.output
                         THEN [n \in DOMAIN fs \cup {profile_type \o "_input.json"} |->
                                  IF n = profile_type \o "_input.json" THEN JsonText(r.val) ELSE fs[n]]
                         ELSE fs
                /\ UNCHANGED diagnostics
    /\ todo' = Tail(todo)
    /\ UNCHANGED <<pc, args, fs0, status>>
    /\ UNCHANGED <<kind, section, profile, exc, dialect, exported, reimported, d, path, value, after>>
    /\ UNCHANGED diffVars

\* the end of main: the process ends with status 0
MainReturn ==
    /\ pc = "main_loop"
    /\ todo = << >>
    /\ pc' = "main_done"
    /\ status' = "exit 0"
    /\ UNCHANGED <<args, fs0, fs, todo, emitted, diagnostics>>
    /\ UNCHANGED <<kind, section, profile, exc, dialect, exported, reimported, d, path, value, after>>
    /\ UNCHANGED diffVars

NextMain == MainDetect \/ MainStep \/ MainReturn

SpecMain == InitMain /\ [][NextMain]_vars

-----------------------------------------------------------------------------
(* A sequence of import calls in one process *)

MaxCalls == 2

\* the object in which one skeleton lives for all calls of a kind: the first
\* object of the kind among the objects of the process, a new one if none
shared_profile_object(objects, k) ==
    IF \E i \in DOMAIN objects : objects[i].kind = k
    THEN CHOOSE i \in DOMAIN objects : objects[i].kind = k /\ \A j \in 1..(i - 1) : objects[j].kind # k
    ELSE Len(objects) + 1

\* the object that profile = {...} of a converter binds: the dict display is
\* evaluated in the call, which makes a new object each time
new_profile_object(objects, k) == Len(objects) + 1

\* the objects after a converter has filled the object at ref with what it
\* writes for the section: every key of the skeleton and of the result assigned,
\* any other key of the object left as it is
converter_writes(objects, ref, k, written) ==
    LET before == IF ref \in DOMAIN objects THEN objects[ref].value.v ELSE << >>
        filled == [key \in DOMAIN before \cup DOMAIN written.v |->
                      IF key \in DOMAIN written.v THEN written.v[key] ELSE before[key]]
    IN  [i \in DOMAIN objects \cup {ref} |->
            IF i = ref THEN [kind |-> k, value |-> DictV(filled)] ELSE objects[i]]

\* a new process: the tables are loaded (section holds the last source section,
\* d the profile objects made so far, profile the reference last returned,
\* after the tables of the module)
InitCalls ==
    /\ pc = "calls"
    /\ kind = "none"
    /\ section = NoValue
    /\ profile = NoValue
    /\ exc = "none"
    /\ dialect = "none"
    /\ exported = NoValue
    /\ reimported = NoValue
    /\ d = << >>
    /\ path = << >>
    /\ value = NoValue
    /\ after = [k \in Kinds |-> MAPPINGS_of(k)]
    /\ IdleDiff
    /\ IdleBatch

\* profile = convert_profile(config, profile_type), on any document and kind
ImportCall ==
    /\ pc = "calls"
    /\ Len(d) < MaxCalls
    /\ \E k \in Kinds :
        \E sec \in SmallSections(k) :
            LET r == convert_profile(sec, k)
                ref == new_profile_object(d, k)
            IN  /\ kind' = k
                /\ section' = sec
                /\ exc' = r.exc
                /\ d' = converter_writes(d, ref, k, IF r.exc = "none" THEN r.val ELSE skeleton_of(k))
                /\ profile' = IF r.exc = "none" THEN [t |-> "ref", v |-> ref] ELSE NoValue
    /\ UNCHANGED <<pc, dialect, exported, reimported, path, value, after>>
    /\ UNCHANGED <<diffVars, batchVars>>

\* the caller changes a profile it was given: a new key, or another id
ModifyReturned ==
    /\ pc = "calls"
    /\ \E ref \in DOMAIN d :
        \E key \in {"id", "owner"} :
            d' = [d EXCEPT ![ref].value = DictV(Put(@.v, key, StrV(<<"m", "i", "n", "e">>)))]
    /\ UNCHANGED <<pc, kind, section, profile, exc, dialect, exported, reimported, path, value, after>>
    /\ UNCHANGED <<diffVars, batchVars>>

NextCalls == ImportCall \/ ModifyReturned

SpecCalls == InitCalls /\ [][NextCalls]_vars

-----------------------------------------------------------------------------
(* A profile taken from JSON to YAML and back, tools/format_convert.py *)

MaxStr == 2

\* the values of a field of a profile stored as JSON: strings of at most MaxStr
\* characters with letters, digits and the line breaks of YAML, the words that
\* YAML reads as something else, numbers, booleans, null and containers
RoundValues ==
    {StrV(s) : s \in UNION {[1..n -> {"a", "1", "\n", "NEL"}] : n \in 0..MaxStr}}
    \cup {StrV(<<"t", "r", "u", "e">>), StrV(<<"n", "u", "l", "l">>), StrV(<<"1", ".", "5">>),
          IntV(0), IntV(-7), FloatV(15000), FloatV(-2500), BoolV(TRUE), BoolV(FALSE), NoneV,
          EmptyDict, ListV(<< >>),
          ListV(<<IntV(1), StrV(<<"1">>)>>),
          DictV([k |-> ListV(<<NoneV, StrV(<<"a", "NEL">>)>>)])}

\* the recognized profiles stored as JSON
RoundDocs ==
    {DictV([op3d_schema |-> s, notes |-> x]) : s \in SCHEMA_TYPES, x \in RoundValues}

RoundJson == [root |-> "in", dir |-> "", stem |-> "p", suffix |-> ".json"]
RoundYaml == [root |-> "in", dir |-> "", stem |-> "p", suffix |-> ".yaml"]

InitRound ==
    /\ pc = "round_json"
    /\ args = [conversion |-> "json2yaml", output |-> FALSE, blocked |-> {}]
    /\ \E doc \in RoundDocs : fs0 = [item \in {RoundJson} |-> JsonText(doc)]
    /\ fs = fs0
    /\ todo = {}
    /\ emitted = << >>
    /\ diagnostics = {}
    /\ status = "running"
    /\ IdleImport
    /\ IdlePath
    /\ IdleDiff

\* json_to_yaml(p.json): p.yaml beside it
JsonToYaml ==
    /\ pc = "round_json"
    /\ LET r == conversion_func(args, fs, RoundJson)
       IN  /\ fs' = r.val
           /\ status' = IF r.exc = "none" THEN status ELSE r.exc
           /\ pc' = IF r.exc = "none" THEN "round_yaml" ELSE "round_done"
    /\ args' = [args EXCEPT !.conversion = "yaml2json"]
    /\ UNCHANGED <<fs0, todo, emitted, diagnostics>>
    /\ UNCHANGED <<kind, section, profile, exc, dialect, exported, reimported, d, path, value, after>>
    /\ UNCHANGED diffVars

\* yaml_to_json(p.yaml): p.json beside it, in the place of the first document
YamlToJson ==
    /\ pc = "round_yaml"
    /\ LET r == conversion_func(args, fs, RoundYaml)
       IN  /\ fs' = r.val
           /\ status' = IF r.exc = "none" THEN "returned" ELSE r.exc
    /\ pc' = "round_done"
    /\ UNCHANGED <<args, fs0, todo, emitted, diagnostics>>
    /\ UNCHANGED <<kind, section, profile, exc, dialect, exported, reimported, d, path, value, after>>
    /\ UNCHANGED diffVars

NextRound == JsonToYaml \/ YamlToJson

SpecRound == InitRound /\ [][NextRound]_vars

-----------------------------------------------------------------------------
(* The import of a filament section with temperatures *)

\* the numeric texts of temperature and of bed_temperature: inside the limits
\* of the window rules, on them and beyond them
NozzleTemperatures ==
    {NatToStr(n) : n \in {100, 120, 140, 150, 170, 205, 280, 300, 320}}
    \cup {<<"1", "4", "9", ".", "5">>}

BedTemperatures ==
    {NatToStr(n) : n \in {0, 5, 60, 140, 150, 160}} \cup {<<"-", "5">>, <<"1", "5", "5", ".", "5">>}

\* the filament sections that hold temperature, bed_temperature, both or neither
TemperatureSections ==
    UNION {{sec \in [opts -> NozzleTemperatures \cup BedTemperatures] :
                /\ "temperature" \in opts => sec["temperature"] \in NozzleTemperatures
                /\ "bed_temperature" \in opts => sec["bed_temperature"] \in BedTemperatures} :
              opts \in SUBSET {"temperature", "bed_temperature"}}

InitWindow ==
    /\ pc = "start"
    /\ kind = "filament"
    /\ section \in TemperatureSections
    /\ profile = NoValue
    /\ exc = "none"
    /\ dialect = "none"
    /\ exported = NoValue
    /\ reimported = NoValue
    /\ d = NoValue
    /\ path = << >>
    /\ value = NoValue
    /\ after = NoValue
    /\ IdleDiff
    /\ IdleBatch

SpecWindow == InitWindow /\ [][NextImport]_vars

-----------------------------------------------------------------------------
(* The validation of every profile, main of tools/batch_validate.py *)

MaxProfiles == 2

\* text that is no UTF-8: open(..., encoding="utf-8") cannot decode it
BytesText == [syntax |-> "bytes", doc |-> NoValue]

\* load_json: None for text that is no JSON, after a line on the error stream;
\* any other exception of open or of the decoder leaves the function
load_json(files, item) ==
    CASE files[item].syntax = "json" -> Ok(files[item].doc)
      [] files[item].syntax = "bytes" -> Raise("UnicodeDecodeError", NoValue)
      [] OTHER -> Ok(NoneV)

\* schemas of main: the schemas of the printer and of the filament, each
\* read here by the top-level keys it requires
schemas ==
    [printer |-> [required |-> {"op3d_schema", "id"}],
     filament |-> [required |-> {"op3d_schema", "id"}]]

\* validate_profile: the errors of the validator, here the required keys that
\* a mapping lacks, or one error for a document that is no mapping
validate_profile(prof, schema) ==
    LET errors == IF prof.t = "dict" THEN schema.required \ DOMAIN prof.v ELSE {"<root>"}
    IN  [is_valid |-> errors = {}, errors |-> errors]

\* find_profiles: the *.json files under printer, under filament and under
\* process, each with the name of its directory as its schema type
find_profiles(files) ==
    {item \in DOMAIN files : item.dir \in {"printer", "filament", "process"} /\ item.suffix = ".json"}

\* the place of a directory in the list that find_profiles returns
FoundRank(item) == CASE item.dir = "printer" -> 1 [] item.dir = "filament" -> 2 [] OTHER -> 3

\* stats of main, which the model keeps in the variable result
stats == result

ValidatedTexts ==
    {JsonText(DictV([op3d_schema |-> s_printer, id |-> StrV(<<"A">>)])),
     JsonText(EmptyDict),
     JunkText,
     BytesText}

ValidatedPaths ==
    {[root |-> "base", dir |-> dir, stem |-> "p", suffix |-> ".json"] :
        dir \in {"printer", "filament", "process", "docs"}}
    \cup {[root |-> "base", dir |-> "printer", stem |-> "p", suffix |-> ".yaml"]}

\* the base directories: at most MaxProfiles files
BaseDirs ==
    UNION {[names -> ValidatedTexts] :
              names \in {n \in SUBSET ValidatedPaths : Cardinality(n) <= MaxProfiles}}

InitValidate ==
    /\ pc = "validate_loop"
    /\ args \in {[verbose |-> v] : v \in BOOLEAN}
    /\ fs0 \in BaseDirs
    /\ fs = fs0
    /\ todo = find_profiles(fs0)
    /\ emitted = << >>
    /\ diagnostics = {}
    /\ status = "running"
    /\ result = [ok |-> 0, fail |-> 0]
    /\ profile1 = NoValue
    /\ profile2 = NoValue
    /\ key_order = << >>
    /\ show_common = FALSE
    /\ IdleImport
    /\ IdlePath

\* one round of the loop of main over profiles; an exception of load_json
\* leaves the loop and the process with a traceback
ValidateStep ==
    /\ pc = "validate_loop"
    /\ \E item \in todo :
        LET loaded == load_json(fs, item)
            checked == validate_profile(loaded.val, schemas[item.dir])
        IN  /\ \A other \in todo : FoundRank(item) <= FoundRank(other)
            /\ IF loaded.exc # "none"
               THEN /\ pc' = "validate_done"
                    /\ status' = loaded.exc
                    /\ diagnostics' = diagnostics \cup {[item |-> item, message |-> "Traceback"]}
                    /\ UNCHANGED <<todo, emitted, result>>
               ELSE /\ todo' = todo \ {item}
                    /\ UNCHANGED <<pc, status>>
                    /\ IF loaded.val = NoneV
                       THEN /\ result' = [result EXCEPT !.fail = @ + 1]
                            /\ diagnostics' = diagnostics \cup {[item |-> item, message |-> "[ERR] Invalid JSON"]}
                            /\ UNCHANGED emitted
                       ELSE IF item.dir \notin DOMAIN schemas
                       THEN UNCHANGED <<result, diagnostics, emitted>>
                       ELSE /\ result' = IF checked.is_valid
                                         THEN [result EXCEPT !.ok = @ + 1]
                                         ELSE [result EXCEPT !.fail = @ + 1]
                            /\ emitted' = Append(emitted,
                                   [src |-> item,
                                    line |-> IF checked.is_valid THEN "[ OK ]" ELSE "[FAIL]",
                                    errors |-> IF args.verbose THEN checked.errors ELSE {}])
                            /\ UNCHANGED diagnostics
    /\ UNCHANGED <<args, fs0, fs>>
    /\ UNCHANGED <<kind, section, profile, exc, dialect, exported, reimported, d, path, value, after>>
    /\ UNCHANGED <<profile1, profile2, key_order, show_common>>

\* sys.exit(0 if stats["fail"] == 0 else 1), when the list is exhausted
ValidateExit ==
    /\ pc = "validate_loop"
    /\ todo = {}
    /\ pc' = "validate_done"
    /\ status' = IF result.fail = 0 THEN "exit 0" ELSE "exit 1"
    /\ UNCHANGED <<args, fs0, fs, todo, emitted, diagnostics>>
    /\ UNCHANGED <<kind, section, profile, exc, dialect, exported, reimported, d, path, value, after>>
    /\ UNCHANGED diffVars

NextValidate == ValidateStep \/ ValidateExit

SpecValidate == InitValidate /\ [][NextValidate]_vars

-----------------------------------------------------------------------------
(* C13 .. C17: the comparison *)

\* the leaf paths of a profile: the key sequences that lead through nested
\* mappings only to a value that is not a mapping
RECURSIVE LeafPaths(_)
LeafPaths(node) ==
    UNION {IF node.v[k].t = "dict" THEN {<<k>> \o p : p \in LeafPaths(node.v[k])} ELSE {<<k>>} :
            k \in DOMAIN node.v}

RECURSIVE LeafValue(_, _)
LeafValue(node, p) == IF p = << >> THEN node ELSE LeafValue(node.v[Head(p)], Tail(p))

\* the profile with the value at leaf path p replaced by x
RECURSIVE WithLeaf(_, _, _)
WithLeaf(node, p, x) ==
    IF p = << >> THEN x
    ELSE DictV([node.v EXCEPT ![Head(p)] = WithLeaf(node.v[Head(p)], Tail(p), x)])

\* the segments of a path joined with the separator
RECURSIVE JoinPath(_)
JoinPath(p) == IF Len(p) = 1 THEN p[1] ELSE p[1] \o "." \o JoinPath(Tail(p))

IsScalar(x) == x.t \in {"str", "int", "float", "bool"}

\* profile2 is profile1 but for the value at leaf path p, which is unequal
DiffersOnlyAt(p) ==
    /\ p \in LeafPaths(profile1) \cap LeafPaths(profile2)
    /\ ~PyEq(LeafValue(profile1, p), LeafValue(profile2, p))
    /\ profile2 = WithLeaf(profile1, p, LeafValue(profile2, p))

DifferentEntry(p) ==
    [key |-> JoinPath(p), profile1 |-> LeafValue(profile1, p),
     profile2 |-> LeafValue(profile2, p), status |-> "different"]

\* C13: the comparison of a profile with itself reports no difference, and with
\* show_common as many common entries as the profile has leaf paths.
C13_SelfDiffEmpty ==
    (pc = "diff_done" /\ profile1 = profile2) =>
        /\ result.differences = {}
        /\ result.stats.differences = 0
        /\ show_common => result.stats.common = Cardinality(LeafPaths(profile1))

\* C14: the comparison of two profiles that are identical except at one leaf
\* path, where they hold unequal scalars, reports one difference, with the
\* joined path as key and status "different", and nothing else.
C14_SingleLeafDifference ==
    pc = "diff_done" =>
        \A p \in LeafPaths(profile1) :
            (/\ DiffersOnlyAt(p)
             /\ IsScalar(LeafValue(profile1, p))
             /\ IsScalar(LeafValue(profile2, p))) =>
                result.differences = {DifferentEntry(p)}

\* C15: a key that both flattened views hold with values of different types
\* (int and float, bool and int) has a "different" entry and no common entry.
C15_TypePreservingEquality ==
    pc = "diff_done" =>
        LET flat1 == flatten_dict(profile1, key_order)
            flat2 == flatten_dict(profile2, key_order)
        IN  \A k \in DOMAIN flat1 \cap DOMAIN flat2 :
                flat1[k].t # flat2[k].t =>
                    /\ \E e \in result.differences : e.key = k /\ e.status = "different"
                    /\ \A e \in result.common : e.key # k

\* C16: every key of the union of the flattened views has one entry when
\* show_common is set and at most one otherwise, with the status of the side or
\* sides that hold it; the statistics count the entries: differences is the sum
\* of the three statuses, and with show_common total_keys is differences plus
\* common.
C16_ClassificationIsPartition ==
    pc = "diff_done" =>
        LET flat1 == flatten_dict(profile1, key_order)
            flat2 == flatten_dict(profile2, key_order)
            st == result.stats
        IN  /\ \A k \in DOMAIN flat1 \cup DOMAIN flat2 :
                LET entries == Cardinality({e \in result.differences : e.key = k})
                                   + Cardinality({e \in result.common : e.key = k})
                IN  /\ entries <= 1
                    /\ show_common => entries = 1
                    /\ \A e \in result.differences :
                          e.key = k =>
                              e.status = (IF k \notin DOMAIN flat1 THEN "only_in_profile2"
                                          ELSE IF k \notin DOMAIN flat2 THEN "only_in_profile1"
                                          ELSE "different")
                    /\ (k \notin DOMAIN flat1 \/ k \notin DOMAIN flat2) =>
                          \E e \in result.differences : e.key = k
            /\ \A e \in result.differences \cup result.common : e.key \in DOMAIN flat1 \cup DOMAIN flat2
            /\ ~show_common => result.common = {}
            /\ st.differences = st.only_in_profile1 + st.only_in_profile2 + st.modified
            /\ show_common => st.total_keys = st.differences + st.common

C16_Witness ==
    /\ pc = "diff_done"
    /\ show_common
    /\ result.stats.only_in_profile1 > 0
    /\ result.stats.only_in_profile2 > 0
    /\ result.stats.modified > 0
    /\ result.stats.common > 0

-----------------------------------------------------------------------------
(* C18, C19: the mirror of a directory *)

\* the orders in which the traversal may yield a listing
ListingOrders(names) ==
    {seq \in [1..Cardinality(names) -> names] :
        /\ \A i, j \in DOMAIN seq : i # j => seq[i] # seq[j]
        /\ \A i, j \in DOMAIN seq : (seq[i].dir # "" /\ seq[j].dir = "") => j < i}

\* the loop of process_path over the listing in a given order
RECURSIVE process_in_order(_, _, _)
process_in_order(a, files, seq) ==
    IF seq = << >> THEN Ok(files)
    ELSE LET r == process_item(a, files, Head(seq))
         IN  IF r.exc # "none" THEN Raise(r.exc, r.val)
             ELSE process_in_order(a, r.val, Tail(seq))

\* C18: the files with which process_path returns are the files with which it
\* returns for every other order in which the traversal may yield the listing
\* of the same directory.
C18_OrderInsensitive ==
    (pc = "mirror_done" /\ status = "returned") =>
        \A seq \in ListingOrders(DOMAIN fs0) :
            LET r == process_in_order(args, fs0, seq)
            IN  r.exc = "none" => r.val = fs

\* the items of the listing whose conversion fails: a file with the suffix of a
\* profile that does not parse, or a profile whose output cannot be written
FailsToLoad(item) ==
    /\ item.suffix \in {".json", ".yaml", ".yml"}
    /\ parse_by_suffix(fs0, item).exc # "none"

FailsToWrite(item) ==
    /\ is_profile_file(fs0, item).val
    /\ output_path(args, item) \in args.blocked

\* C19: when process_path has ended on a directory, every item whose conversion
\* failed has a diagnostic, and every other profile file of the listing has
\* been converted.
C19_FailingFileIsSurvived ==
    pc = "mirror_done" =>
        \A item \in DOMAIN fs0 :
            IF FailsToLoad(item) \/ FailsToWrite(item)
            THEN \E dg \in diagnostics : dg.item = item
            ELSE is_profile_file(fs0, item).val =>
                    \E i \in DOMAIN emitted : emitted[i].src = item

-----------------------------------------------------------------------------
(* C20: the export of a list *)

\* C20: when the export of a list has ended, every path whose load fails has one
\* diagnostic, and every path after it that loads and converts has been
\* emitted.
C20_BatchDoesNotAbort ==
    pc = "batch_done" =>
        \A i \in DOMAIN args.profiles :
            load_profile_json(fs0, args.profiles[i]).exc # "none" =>
                /\ Cardinality({dg \in diagnostics : dg.index = i}) = 1
                /\ \A j \in DOMAIN args.profiles :
                      (/\ j > i
                       /\ load_profile_json(fs0, args.profiles[j]).exc = "none"
                       /\ converter_for(args.slicer, load_profile_json(fs0, args.profiles[j]).val).exc = "none") =>
                          \E k \in DOMAIN emitted : emitted[k].index = j

-----------------------------------------------------------------------------
(* C21: the exit status of the import *)

\* the kinds the import was asked for: the one of --type, or the detected ones,
\* the first of them alone without --all
Requested ==
    IF fs0 = NoValue THEN {}
    ELSE IF args.type # "auto" THEN {args.type}
    ELSE LET detected == detect_profile_type(fs0)
         IN  IF args.all THEN {detected[i] : i \in DOMAIN detected}
             ELSE {detected[i] : i \in DOMAIN detected \cap {1}}

\* C21: when the import has ended, its exit status is 0 exactly if every
\* requested kind was converted.
C21_FailureInExitStatus ==
    pc = "main_done" =>
        (status = "exit 0" <=>
            /\ Requested # {}
            /\ \A k \in Requested : \E i \in DOMAIN emitted : emitted[i].src = k)

-----------------------------------------------------------------------------
(* C22: a kind that is none of the three *)

\* C22: convert_profile of the importer raises for a kind outside the three and
\* returns no profile; the export emits no document and writes no file for a
\* profile whose op3d_schema is outside the three.
C22_UnknownKindIsFatal ==
    /\ \A k \in {"widget", "auto", ""} :
          /\ convert_profile(<< >>, k).exc # "none"
          /\ convert_profile(<< >>, k).val = NoValue
    /\ pc \in {"batch_loop", "batch_done"} =>
          \A i \in DOMAIN emitted :
              dict_get(fs0[emitted[i].src].doc, "op3d_schema", NoneV) \in SCHEMA_TYPES

-----------------------------------------------------------------------------
(* C23: calls share nothing *)

-----------------------------------------------------------------------------
(* C24, C25: which files the mirror converts, and where to *)

\* what the text of a file says: the suffix is one of the three, the text
\* parses with the parser of the suffix, and the document is a mapping whose
\* op3d_schema is one of the three kinds
RecognizedText(files, item) ==
    /\ item.suffix \in {".json", ".yaml", ".yml"}
    /\ files[item].syntax # "junk"
    /\ item.suffix = ".json" => files[item].syntax = "json"
    /\ files[item].doc.t = "dict"
    /\ "op3d_schema" \in DOMAIN files[item].doc.v
    /\ files[item].doc.v["op3d_schema"] \in {s_printer, s_filament, s_process}

\* C24: is_profile_file raises for no file and returns true only for a file
\* that has one of the three suffixes and parses to a mapping of one of the
\* three kinds; and the loop of process_path converts no file for which it
\* returns false.
C24_DetectionGuard ==
    [][/\ \A item \in DOMAIN fs :
            /\ is_profile_file(fs, item).exc = "none"
            /\ is_profile_file(fs, item).val => RecognizedText(fs, item)
       /\ \A item \in todo :
            (item \notin todo' /\ Len(emitted') > Len(emitted)) => is_profile_file(fs, item).val
       /\ status' \notin {"JSONDecodeError", "YAMLError"}]_vars

\* a run has returned that skipped a file that does not parse and a file that
\* holds a list or a mapping of no kind, and converted a profile
C24_Witness ==
    /\ pc = "mirror_done"
    /\ status = "returned"
    /\ Len(emitted) = 1
    /\ \E item \in DOMAIN fs0 : item.suffix = ".json" /\ fs0[item] = JunkText
    /\ \E item \in DOMAIN fs0 :
          item.suffix = ".yml" /\ fs0[item].doc.t \in {"list", "dict"} /\ ~RecognizedText(fs0, item)

\* where the mirror of a file belongs: under the output root, in the same
\* relative directory, with the same stem and the suffix of the target
MirrorOf(item) ==
    [root |-> "out", dir |-> item.dir, stem |-> item.stem,
     suffix |-> IF args.conversion = "json2yaml" THEN ".yaml" ELSE ".json"]

\* C25: when process_path returns from a directory with an output directory
\* given, every recognized file of the directory has been written to its
\* mirror path, which holds in the syntax of the target the document of a
\* recognized file with that mirror path, nothing else was written, and the
\* count (one per conversion) is the number of recognized files.
C25_MirroredLayout ==
    (pc = "mirror_done" /\ status = "returned" /\ args.output) =>
        LET recognized == {item \in DOMAIN fs0 : RecognizedText(fs0, item)}
        IN  /\ \A item \in recognized :
                /\ \E i \in DOMAIN emitted : emitted[i] = [src |-> item, dst |-> MirrorOf(item)]
                /\ MirrorOf(item) \in DOMAIN fs
                /\ fs[MirrorOf(item)].syntax = (IF args.conversion = "json2yaml" THEN "yaml" ELSE "json")
                /\ \E other \in recognized :
                      MirrorOf(other) = MirrorOf(item) /\ fs[MirrorOf(item)].doc = fs0[other].doc
            /\ DOMAIN fs = DOMAIN fs0 \cup {MirrorOf(item) : item \in recognized}
            /\ \A item \in DOMAIN fs0 : fs[item] = fs0[item]
            /\ Len(emitted) = Cardinality(recognized)

C25_Witness ==
    /\ pc = "mirror_done"
    /\ status = "returned"
    /\ args.output
    /\ \E i, j \in DOMAIN emitted : emitted[i].src.dir = "" /\ emitted[j].src.dir = "sub"
    /\ \E item \in DOMAIN fs : item.root = "out" /\ item.dir = "sub"

-----------------------------------------------------------------------------
(* C26: from JSON to YAML and back *)

\* C26: when a recognized profile stored as JSON has been taken to YAML and
\* back, the JSON file holds a document equal to the first one, in its keys,
\* its nesting, its values and the types of its values.
C26_FormatRoundTrip ==
    pc = "round_done" =>
        /\ status = "returned"
        /\ fs[RoundJson] = fs0[RoundJson]

-----------------------------------------------------------------------------
(* C27: the temperature windows of a filament *)

\* C27: every filament profile the import returns has its recommended nozzle
\* temperature between nozzle.min and nozzle.max and its recommended bed
\* temperature between bed.min and bed.max.
C27_TemperatureWindow ==
    (kind = "filament" /\ profile # NoValue) =>
        \A part \in {"nozzle", "bed"} :
            LET window == profile.v[part].v
            IN  /\ NumVal(window["min"]) <= NumVal(window["recommended"])
                /\ NumVal(window["recommended"]) <= NumVal(window["max"])

-----------------------------------------------------------------------------
(* C28: no difference reported *)

\* C28: two profiles for which the comparison reports no difference are equal
\* as nested documents (with the equality of Python, which takes equal numbers
\* of different types as equal).
C28_DiffSoundness ==
    (pc = "diff_done" /\ result.differences = {}) => PyEq(profile1, profile2)

-----------------------------------------------------------------------------
(* C29: no option of the source is lost *)

\* the option o of the section is kept by the profile: as the value its entry's
\* converter makes of it, at the entry's path, or as its raw string under
\* x_prusaslicer
Retained(k, sec, prof, o) ==
    \/ \E i \in PresentEntries(k, sec) :
          LET e == MAPPINGS_of(k)[i]
          IN  /\ e.key = o
              /\ converter(e.conv, sec[o]).exc = "none"
              /\ PyEq(ReadPath(prof, e.path), converter(e.conv, sec[o]).val)
    \/ ReadPath(prof, <<"x_prusaslicer", o>>) = StrV(sec[o])

\* C29: the profile an import returns keeps every option of the source
\* section, of whatever kind: a mapped one with a raw value its converter
\* rejects and one whose path another mapped option writes too.
C29_NoSourceKeyLost ==
    pc = "imported" => \A o \in DOMAIN section : Retained(kind, section, profile, o)

-----------------------------------------------------------------------------
(* C30: every profile is accounted for *)

\* C30: when the validation has ended, it has ended by its exit after the
\* loop, the profiles counted as ok and as failed are together as many as
\* find_profiles found, every found file that is no JSON has its line on the
\* error stream, and the exit status is 0 exactly if none was counted as failed.
C30_EveryProfileAccounted ==
    pc = "validate_done" =>
        /\ status \in {"exit 0", "exit 1"}
        /\ stats.ok + stats.fail = Cardinality(find_profiles(fs0))
        /\ \A item \in find_profiles(fs0) :
              fs0[item].syntax # "json" =>
                  [item |-> item, message |-> "[ERR] Invalid JSON"] \in diagnostics
        /\ status = "exit 0" <=> stats.fail = 0

====
